---- MODULE Spec2Model ----
(***************************************************************************)
(* Model of the circuit breaker (myOwnCodes/circuit-breaker-pattern.js)    *)
(* and of the rate limiter (myOwnCodes/mock-server.js).                    *)
(*                                                                         *)
(* JavaScript runs one callback at a time; an async function runs          *)
(* synchronously up to its first await and is resumed later.  Each action  *)
(* below is one such synchronous stretch of code.                          *)
(***************************************************************************)
EXTENDS Integers, Sequences, FiniteSets, TLC

(***************************************************************************)
(* Bounds of the model.                                                    *)
(***************************************************************************)
MaxThreshold == 3
MaxTimeout == 2
MaxTime == 5
MaxCalls == 5
MaxInFlight == 2
MaxItems == 3
MaxStarts == 4
MaxRLTime == 180000
RLTickMs == 60000
MaxTtl == 2
MaxCacheTime == 4
MaxCacheOps == 4
\* continuousRetryDemo: how late a 2000 ms timer may fire, in ms
MaxDrift == 250
\* mock server: requests sent when the rate limit is exercised
MaxRateReqs == 12
\* mock server: requests sent when the routes are exercised
MaxAuthReqs == 2
\* mock server: the clock stops here when the rate limit is exercised
MaxSrvTime == 120000
\* mock server: idle hours
MaxIdle == 2
\* StockAPIClient: calls of getStock
MaxGets == 3
\* StockAPIClient: the clock stops here, in ms
MaxClientTime == 24000
\* fetchWithRetry: largest maxRetries
MaxRetries == 3
\* fetchWithRetry: upstream requests of one call that are followed
MaxFetchRequests == 5
\* RequestDeduplicator: calls of execute
MaxExecutes == 4

VARIABLES
  breaker,    \* the CircuitBreaker object: its fields
  now,        \* Date.now()
  inflight,   \* operations invoked through execute whose promise is pending
  calls,      \* number of execute calls made so far
  invoked,    \* number of times an operation was invoked (call-counter stub)
  run,        \* length of the current run of consecutive operation failures
  maxRun,     \* longest run of consecutive operation failures so far
  wasReset,   \* reset() has been called
  guardUntil, \* end of the window opened by the latest failed trial
  settled,    \* how the latest execute call to settle did settle
  fallbackFn, \* the breaker is a CircuitBreakerWithFallback with a fallbackFn
  superSettled, \* outcomes of super.execute on which
              \* CircuitBreakerWithFallback.execute has not resumed yet
  fallbackPending, \* calls whose catch block awaits this.fallbackFn()
  trials      \* pending operations that were invoked in HALF_OPEN

cbVars == <<breaker, now, inflight, calls, invoked, run, maxRun, wasReset,
           guardUntil, settled, fallbackFn, superSettled, fallbackPending, trials>>

VARIABLES
  limiter,    \* the RateLimiter object: its fields
  running,    \* queue entries whose requestFn() is pending
  timers,     \* pending setTimeout callbacks of waitAndRetry: their due times
  promise,    \* the promise returned by each enqueue call
  rlNow,      \* the clock of the timers, in ms
  trace,      \* enqueue calls, invocations and completions, in order
  coolUntil,  \* end of the cool-down of the latest rate-limited attempt
  startAt,    \* the clock at each invocation of a requestFn, in order
  endAt       \* the clock at each completion of a requestFn, in order

rlVars == <<limiter, running, timers, promise, rlNow, trace, coolUntil,
           startAt, endAt>>

VARIABLES
  cache,      \* the Map of APICacheWithInvalidation: key -> { data, expiry }
  ttl,        \* this.ttl
  cacheNow,   \* Date.now() as the cache reads it
  cacheOp,    \* the latest call on the cache and what it returned
  cacheOps,   \* number of calls made on the cache
  written     \* per key, the latest set and whether invalidate or clear followed

caVars == <<cache, ttl, cacheNow, cacheOp, cacheOps, written>>

VARIABLES
  callCount,  \* continuousRetryDemo: invocations of simulatedAPI so far
  shouldFail, \* continuousRetryDemo: the flag of simulatedAPI
  attempt,    \* continuousRetryDemo: the loop index i, plus one
  demoPc,     \* continuousRetryDemo: where the loop stands
  outcomes    \* continuousRetryDemo: what each attempt met and how it ended

demoVars == <<callCount, shouldFail, attempt, demoPc, outcomes>>

VARIABLES
  requestCount, \* mock server: requests counted since the last reset
  stocks,       \* mock server: the in-memory list of stocks
  tokens,       \* mock server: the token Map: token -> its data
  issued,       \* mock server: tokens generated so far
  srvNow,       \* mock server: Date.now(), in ms
  resets,       \* mock server: times the setInterval callback has run
  response,     \* mock server: the latest request and how it was answered
  admitted,     \* mock server: the requests the rate limiter let through
  reqsLeft      \* requests the clients still send

srvVars == <<requestCount, stocks, tokens, issued, srvNow, resets, response,
            admitted, reqsLeft>>

VARIABLES
  adv,        \* the CircuitBreaker object of advanced-patterns.js: its fields
  advNow,     \* Date.now() as that breaker reads it
  advInflight, \* operations invoked through its execute and still pending
  advCalls,   \* calls of its execute so far
  advInvoked, \* invocations of fn by its execute so far
  advSettled  \* how its latest settled call ended

advVars == <<adv, advNow, advInflight, advCalls, advInvoked, advSettled>>

VARIABLES
  client,     \* the StockAPIClient object: its cache and its rateLimiter
  cliNow,     \* Date.now() as the client reads it, in ms
  cliTimers,  \* pending waitAndRetry timers of the client's limiter
  fetch,      \* the call of fetchWithRetry: its locals and where it stands
  gets,       \* calls of getStock so far
  lastGet,    \* the latest getStock call and what it returned
  handed      \* what the promise of each enqueued getStock call was settled with

cliVars == <<client, cliNow, cliTimers, fetch, gets, lastGet, handed>>

VARIABLES
  pendingRequests, \* RequestDeduplicator: the Map key -> promise
  httpCalls,       \* the calls of axios made by execute: key and outcome
  callers          \* per call of execute: its key and the promise returned

ddVars == <<pendingRequests, httpCalls, callers>>

vars == <<cbVars, rlVars, caVars, demoVars, srvVars, advVars, cliVars, ddVars>>

\* what the actions of one component leave alone
cbOthers == <<rlVars, caVars, demoVars, srvVars, advVars, cliVars, ddVars>>
rlOthers == <<cbVars, caVars, demoVars, srvVars, advVars, cliVars, ddVars>>
caOthers == <<cbVars, rlVars, demoVars, srvVars, advVars, cliVars, ddVars>>
demoOthers == <<rlVars, caVars, srvVars, advVars, cliVars, ddVars>>
srvOthers == <<cbVars, rlVars, caVars, demoVars, advVars, cliVars, ddVars>>
cliOthers == <<cbVars, rlVars, caVars, demoVars, srvVars, advVars, ddVars>>
pairOthers == <<rlVars, caVars, demoVars, srvVars, cliVars, ddVars>>
ddOthers == <<cbVars, rlVars, caVars, demoVars, srvVars, advVars, cliVars>>
advOthers == <<cbVars, rlVars, caVars, demoVars, srvVars, cliVars, ddVars>>

(***************************************************************************)
(* CircuitBreaker                                                          *)
(***************************************************************************)

\* constructor(threshold, timeout) at time t
NewBreaker(threshold, timeout, t) ==
  [threshold |-> threshold, timeout |-> timeout,
   failureCount |-> 0, successCount |-> 0,
   state |-> "CLOSED", nextAttempt |-> t]

\* the comparison with nextAttempt inverted
IsRejecting_Inverted(b, t) == b.state = "OPEN" /\ t > b.nextAttempt

\* execute: the circuit is OPEN and the timeout has not expired
IsRejecting(b, t) == b.state = "OPEN" /\ t < b.nextAttempt

\* the transition to HALF_OPEN left out
Admit_NoHalfOpen(b) == b

\* execute: the object as fn is invoked
Admit(b) ==
  IF b.state = "OPEN" THEN [b EXCEPT !.state = "HALF_OPEN"] ELSE b

\* failureCount not cleared
OnSuccess_KeepCount(b) ==
  [b EXCEPT !.successCount = @ + 1,
            !.state = IF @ = "HALF_OPEN" THEN "CLOSED" ELSE @]

\* the circuit is closed whatever the state
OnSuccess_AlwaysClose(b) ==
  [b EXCEPT !.failureCount = 0,
            !.successCount = @ + 1,
            !.state = "CLOSED"]

OnSuccess(b) ==
  [b EXCEPT !.failureCount = 0,
            !.successCount = @ + 1,
            !.state = IF @ = "HALF_OPEN" THEN "CLOSED" ELSE @]

\* the threshold compared with > instead of >=
OnFailure_OffByOne(b, t) ==
  LET fc == b.failureCount + 1 IN
  IF b.state = "HALF_OPEN"
    THEN [b EXCEPT !.failureCount = fc, !.state = "OPEN",
                   !.nextAttempt = t + b.timeout]
    ELSE IF fc > b.threshold
      THEN [b EXCEPT !.failureCount = fc, !.state = "OPEN",
                     !.nextAttempt = t + b.timeout]
      ELSE [b EXCEPT !.failureCount = fc]

OnFailure(b, t) ==
  LET fc == b.failureCount + 1 IN
  IF b.state = "HALF_OPEN"
    THEN [b EXCEPT !.failureCount = fc, !.state = "OPEN",
                   !.nextAttempt = t + b.timeout]
    ELSE IF fc >= b.threshold
      THEN [b EXCEPT !.failureCount = fc, !.state = "OPEN",
                     !.nextAttempt = t + b.timeout]
      ELSE [b EXCEPT !.failureCount = fc]

\* CircuitBreakerWithFallback.execute, catch (error): what the caller gets
\* when super.execute threw error and left the breaker as b
Caught(b, hasFallback, error) ==
  IF b.state = "OPEN" /\ hasFallback THEN "fallback" ELSE error

\* CircuitBreaker.execute returns or throws: its caller gets the outcome;
\* CircuitBreakerWithFallback.execute awaits it and resumes later
SuperSettles(outcome) ==
  IF fallbackFn
    THEN superSettled' = Append(superSettled, outcome) /\ UNCHANGED settled
    ELSE settled' = outcome /\ UNCHANGED superSettled

\* the failures counted before the reset survive it
ResetBreaker_KeepFailures(b) ==
  [b EXCEPT !.successCount = 0, !.state = "CLOSED"]

\* the success counter survives the reset
ResetBreaker_KeepSuccesses(b) ==
  [b EXCEPT !.failureCount = 0, !.state = "CLOSED"]

ResetBreaker(b) ==
  [b EXCEPT !.failureCount = 0, !.successCount = 0, !.state = "CLOSED"]

\* the rejected call is counted as a failure
Reject_Counted(b) == [b EXCEPT !.failureCount = @ + 1]

\* execute: the OPEN branch throws before any field is written
Reject(b) == b

CBInit ==
  /\ now = 0
  /\ \E th \in 1..MaxThreshold, to \in 1..MaxTimeout :
       breaker = NewBreaker(th, to, 0)
  /\ inflight = 0
  /\ calls = 0
  /\ invoked = 0
  /\ run = 0
  /\ maxRun = 0
  /\ wasReset = FALSE
  /\ guardUntil = 0
  /\ settled = "none"
  /\ fallbackFn \in BOOLEAN
  /\ superSettled = <<>>
  /\ fallbackPending = 0
  /\ trials = 0

\* time passes
Tick ==
  /\ now < MaxTime
  /\ now' = now + 1
  /\ UNCHANGED <<breaker, inflight, calls, invoked, run, maxRun, wasReset,
                 guardUntil, settled, fallbackFn, superSettled, fallbackPending, trials,
                 cbOthers>>

\* execute(fn) up to "await fn()"
Execute ==
  /\ calls < MaxCalls
  /\ calls' = calls + 1
  /\ IF IsRejecting(breaker, now)
       THEN /\ SuperSettles("circuit_open")
            /\ breaker' = Reject(breaker)
            /\ UNCHANGED <<inflight, invoked, trials>>
       ELSE /\ inflight < MaxInFlight
            /\ UNCHANGED <<settled, superSettled>>
            /\ breaker' = Admit(breaker)
            /\ inflight' = inflight + 1
            /\ invoked' = invoked + 1
            /\ trials' = IF Admit(breaker).state = "HALF_OPEN"
                           THEN trials + 1 ELSE trials
  /\ UNCHANGED <<now, run, maxRun, wasReset, guardUntil, fallbackFn,
                 fallbackPending, cbOthers>>

\* execute(fn) called while no other call is pending
ExecuteAlone ==
  /\ inflight = 0
  /\ Execute

\* execute resumed after fn() resolved
ExecuteSuccess ==
  /\ \E trial \in BOOLEAN :
       \* the call resumed is one invoked in HALF_OPEN, or another one
       /\ IF trial THEN trials > 0 ELSE inflight > trials
       /\ inflight' = inflight - 1
       /\ trials' = IF trial THEN trials - 1 ELSE trials
  /\ breaker' = OnSuccess(breaker)
  /\ run' = 0
  /\ SuperSettles("fn_result")
  /\ UNCHANGED <<now, calls, invoked, maxRun, wasReset, guardUntil, fallbackFn,
                 fallbackPending, cbOthers>>

\* fn is called again after it failed
ExecuteFailure_Retry ==
  /\ inflight > 0
  /\ invoked < MaxCalls
  /\ invoked' = invoked + 1
  /\ breaker' = OnFailure(breaker, now)
  /\ run' = run + 1
  /\ maxRun' = IF run + 1 > maxRun THEN run + 1 ELSE maxRun
  /\ UNCHANGED <<now, inflight, calls, wasReset, guardUntil, settled,
                 fallbackFn, superSettled, fallbackPending, trials, cbOthers>>

\* execute resumed after fn() rejected
ExecuteFailure ==
  /\ \E trial \in BOOLEAN :
       \* the call resumed is one invoked in HALF_OPEN, or another one
       /\ IF trial THEN trials > 0 ELSE inflight > trials
       /\ inflight' = inflight - 1
       /\ trials' = IF trial THEN trials - 1 ELSE trials
  /\ breaker' = OnFailure(breaker, now)
  /\ run' = run + 1
  /\ SuperSettles("fn_error")
  /\ maxRun' = IF run + 1 > maxRun THEN run + 1 ELSE maxRun
  /\ guardUntil' = IF breaker.state = "HALF_OPEN" THEN now + breaker.timeout
                                                  ELSE guardUntil
  /\ UNCHANGED <<now, calls, invoked, wasReset, fallbackFn, fallbackPending,
                 cbOthers>>

\* CircuitBreakerWithFallback.execute resumed after "await
\* super.execute(fn)": it returns the result, or runs its catch block,
\* which reads the state now and either rethrows or calls fallbackFn and
\* awaits it
FallbackResume ==
  /\ superSettled # <<>>
  /\ superSettled' = Tail(superSettled)
  /\ IF Head(superSettled) = "fn_result"
       THEN settled' = "fn_result" /\ UNCHANGED fallbackPending
     ELSE IF Caught(breaker, fallbackFn, Head(superSettled)) = "fallback"
       THEN fallbackPending' = fallbackPending + 1 /\ UNCHANGED settled
     ELSE /\ settled' = Caught(breaker, fallbackFn, Head(superSettled))
          /\ UNCHANGED fallbackPending
  /\ UNCHANGED <<breaker, now, inflight, calls, invoked, run, maxRun, wasReset,
                 guardUntil, fallbackFn, trials, cbOthers>>

\* CircuitBreakerWithFallback.execute resumed after "await
\* this.fallbackFn()": it returns the fallback's result
FallbackReturns ==
  /\ fallbackPending > 0
  /\ fallbackPending' = fallbackPending - 1
  /\ settled' = "fallback"
  /\ UNCHANGED <<breaker, now, inflight, calls, invoked, run, maxRun, wasReset,
                 guardUntil, fallbackFn, superSettled, trials, cbOthers>>

\* reset()
Reset ==
  /\ breaker' = ResetBreaker(breaker)
  /\ wasReset' = TRUE
  /\ guardUntil' = 0
  /\ run' = 0
  /\ UNCHANGED <<now, inflight, calls, invoked, maxRun, settled, fallbackFn,
                 superSettled, fallbackPending, trials, cbOthers>>

(***************************************************************************)
(* RateLimiter                                                             *)
(***************************************************************************)

\* cool-down after a rate-limit failure, in ms
CoolDown == 60000

\* the configurations: new RateLimiter(maxRequests, timeWindow)
RLConfigs == {<<5, 60000>>, <<1, 120000>>}

\* constructor(maxRequests, timeWindow)
NewLimiter(maxRequests, timeWindow) ==
  [maxRequests |-> maxRequests, timeWindow |-> timeWindow,
   queue |-> <<>>, processing |-> FALSE]

\* { requestFn, resolve, reject } of the i-th enqueue call
Entry(i) == [requestFn |-> i, promise |-> i]

\* the status code that is the rate-limit signal
IsRateLimit(out) == out = "429"

\* setTimeout(callback, num / den): Node sets a delay below 1 ms to 1 ms and
\* drops the fraction of any other, so the timer is due that many whole
\* milliseconds after the call
TimerDelay(num, den) ==
  LET q == num \div den IN IF q < 1 THEN 1 ELSE q

\* waitTime = this.timeWindow / this.maxRequests
PaceTime(l) == TimerDelay(l.timeWindow, l.maxRequests)

\* the queue entry re-inserted at the tail
Requeue_AtTail(q, e) == Append(q, e)

\* the queue entry is not put back
Requeue_Dropped(q, e) == q

\* this.queue.unshift({ requestFn, resolve, reject })
Requeue(q, e) == <<e>> \o q

\* the new entry put at the head
Push_AtHead(q, e) == <<e>> \o q

\* this.queue.push({ requestFn, resolve, reject })
Push(q, e) == Append(q, e)

\* the processing flag not tested
CanDispatch_NoFlag(l) == l.queue # <<>>

\* processQueue goes past its first line
CanDispatch(l) == ~(l.processing \/ l.queue = <<>>)

\* processQueue up to "await requestFn()": the limiter afterwards and the
\* entries whose requestFn was invoked
ProcessQueue(l) ==
  IF CanDispatch(l)
    THEN [limiter |-> [l EXCEPT !.processing = TRUE, !.queue = Tail(@)],
          invoked |-> <<Head(l.queue)>>]
    ELSE [limiter |-> l, invoked |-> <<>>]

Range(f) == {f[k] : k \in DOMAIN f}

Event(ev, item, out) == [ev |-> ev, item |-> item, out |-> out]

StartEvents(es) == [k \in DOMAIN es |-> Event("start", es[k].requestFn, "-")]

NumEvents(ev) == Cardinality({k \in DOMAIN trace : trace[k].ev = ev})

RLInit ==
  /\ \E c \in RLConfigs : limiter = NewLimiter(c[1], c[2])
  /\ running = {}
  /\ timers = <<>>
  /\ promise = [i \in 1..MaxItems |-> [status |-> "none", by |-> 0]]
  /\ rlNow = 0
  /\ trace = <<>>
  /\ coolUntil = 0
  /\ startAt = <<>>
  /\ endAt = <<>>

\* the clock advances, with no call made: to the time the next timer is due
\* when that is within RLTickMs, else by RLTickMs
RLTick ==
  /\ rlNow < MaxRLTime
  /\ LET due == {timers[k] : k \in {j \in DOMAIN timers : timers[j] > rlNow}}
         next == due \cup {rlNow + RLTickMs}
     IN rlNow' = CHOOSE t \in next : \A u \in next : t <= u
  /\ UNCHANGED <<limiter, running, timers, promise, trace, coolUntil, startAt,
                 endAt, rlOthers>>

\* enqueue(requestFn): the i-th call
Enqueue ==
  LET i == NumEvents("enq") + 1
      pushed == [limiter EXCEPT !.queue = Push(@, Entry(i))]
      pq == ProcessQueue(pushed)
  IN /\ i <= MaxItems
     /\ NumEvents("start") + Len(pq.invoked) <= MaxStarts
     /\ promise' = [promise EXCEPT ![i] = [status |-> "pending", by |-> 0]]
     /\ limiter' = pq.limiter
     /\ running' = running \cup Range(pq.invoked)
     /\ trace' = trace \o <<Event("enq", i, "-")>> \o StartEvents(pq.invoked)
     /\ startAt' = startAt \o [n \in 1..Len(pq.invoked) |-> rlNow]
     /\ UNCHANGED <<timers, rlNow, coolUntil, endAt, rlOthers>>

\* processQueue resumed after requestFn() resolved: resolve(result), then
\* waitAndRetry(timeWindow / maxRequests)
RequestSucceeds ==
  \E e \in running :
    /\ running' = running \ {e}
    /\ promise' = [promise EXCEPT ![e.promise] =
                     IF @.status = "pending"
                       THEN [status |-> "resolved", by |-> e.requestFn] ELSE @]
    /\ timers' = Append(timers, rlNow + PaceTime(limiter))
    /\ trace' = Append(trace, Event("end", e.requestFn, "ok"))
    /\ endAt' = Append(endAt, rlNow)
    /\ UNCHANGED <<limiter, rlNow, coolUntil, startAt, rlOthers>>

\* what requestFn() rejected with: an error whose response.status is 429 or
\* 500, an error without a response ("none"), or null or undefined
\* ("nullish"), of which error.response cannot be read
ErrorStatuses == {"429", "500", "none", "nullish"}

\* processQueue resumed after requestFn() rejected: with null or undefined
\* the test of error.response throws inside the catch block and processQueue
\* ends there, with processing left set; with status 429 the entry goes
\* back to the queue, then waitAndRetry(60000); with any other error
\* reject(error), then waitAndRetry(timeWindow / maxRequests)
RequestFails ==
  \E e \in running, status \in ErrorStatuses :
    /\ running' = running \ {e}
    /\ trace' = Append(trace, Event("end", e.requestFn, status))
    /\ IF status = "nullish"
         THEN UNCHANGED <<limiter, timers, coolUntil, promise>>
       ELSE IF IsRateLimit(status)
         THEN /\ limiter' = [limiter EXCEPT !.queue = Requeue(@, e)]
              /\ timers' = Append(timers, rlNow + CoolDown)
              /\ coolUntil' = rlNow + CoolDown
              /\ UNCHANGED promise
         ELSE /\ promise' = [promise EXCEPT ![e.promise] =
                   IF @.status = "pending"
                     THEN [status |-> "rejected", by |-> e.requestFn] ELSE @]
              /\ timers' = Append(timers, rlNow + PaceTime(limiter))
              /\ UNCHANGED <<limiter, coolUntil>>
    /\ endAt' = Append(endAt, rlNow)
    /\ UNCHANGED <<rlNow, startAt, rlOthers>>

\* this.processing = false
ClearProcessing(l) == [l EXCEPT !.processing = FALSE]

RemoveAt(q, k) == SubSeq(q, 1, k - 1) \o SubSeq(q, k + 1, Len(q))

\* the callback of waitAndRetry's setTimeout
TimerFires ==
  \E k \in DOMAIN timers :
    LET pq == ProcessQueue(ClearProcessing(limiter))
    IN /\ timers[k] <= rlNow
       /\ NumEvents("start") + Len(pq.invoked) <= MaxStarts
       /\ timers' = RemoveAt(timers, k)
       /\ limiter' = pq.limiter
       /\ running' = running \cup Range(pq.invoked)
       /\ trace' = trace \o StartEvents(pq.invoked)
       /\ startAt' = startAt \o [n \in 1..Len(pq.invoked) |-> rlNow]
       /\ UNCHANGED <<promise, rlNow, coolUntil, endAt, rlOthers>>

RLNext ==
  \/ RLTick
  \/ Enqueue
  \/ RequestSucceeds
  \/ RequestFails
  \/ TimerFires

\* the clock advances while a timer is waiting for its time: to the time
\* the next timer is due when that is within RLTickMs, else by RLTickMs
TimerWaits ==
  /\ \E k \in DOMAIN timers : timers[k] > rlNow
  /\ LET due == {timers[k] : k \in {j \in DOMAIN timers : timers[j] > rlNow}}
         next == due \cup {rlNow + RLTickMs}
     IN rlNow' = CHOOSE t \in next : \A u \in next : t <= u
  /\ UNCHANGED <<limiter, running, timers, promise, trace, coolUntil, startAt,
                 endAt, rlOthers>>

NumSettled ==
  Cardinality({i \in 1..MaxItems : promise[i].status \in {"resolved", "rejected"}})

\* a request fails, with status 429 only as long as the attempts left
\* suffice for every item
RequestFailsFinitely ==
  /\ RequestFails
  /\ IsRateLimit(trace'[Len(trace')].out) =>
        NumEvents("start") + (MaxItems - NumSettled) <= MaxStarts

\* every invocation of requestFn completes
RequestCompletes == RequestSucceeds \/ RequestFailsFinitely

\* the limiter with requests that complete and timers that fire
RLLiveNext ==
  \/ TimerWaits
  \/ Enqueue
  \/ RequestSucceeds
  \/ RequestFailsFinitely
  \/ TimerFires

(***************************************************************************)
(* APICacheWithInvalidation                                                *)
(***************************************************************************)
Keys == {"IBM", "AAPL"}

\* what get returns when there is nothing to return
Null == "null"

\* the entry is taken for expired one millisecond early
IsExpired_Early(item, t) == t >= item.expiry

\* Date.now() > item.expiry
IsExpired(item, t) == t > item.expiry

\* the map without key k
MapDelete(c, k) == [j \in DOMAIN c \ {k} |-> c[j]]

\* the map with key k set to item
MapSet(c, k, item) == [j \in DOMAIN c \cup {k} |-> IF j = k THEN item ELSE c[j]]

\* the expired entry is left in the map
CacheGet_NoEvict(c, k, t) ==
  IF k \notin DOMAIN c
    THEN [cache |-> c, value |-> Null]
    ELSE IF IsExpired(c[k], t)
      THEN [cache |-> c, value |-> Null]
      ELSE [cache |-> c, value |-> c[k].data]

\* get(key) at time t: the map afterwards and the value returned
CacheGet(c, k, t) ==
  IF k \notin DOMAIN c
    THEN [cache |-> c, value |-> Null]
    ELSE IF IsExpired(c[k], t)
      THEN [cache |-> MapDelete(c, k), value |-> Null]
      ELSE [cache |-> c, value |-> c[k].data]

\* set(key, data) at time t
CacheSet(c, k, v, t, life) == MapSet(c, k, [data |-> v, expiry |-> t + life])

\* every entry is deleted
CacheInvalidate_All(c, k) == <<>>

\* invalidate(key)
CacheInvalidate(c, k) == MapDelete(c, k)

\* clear()
CacheClear(c) == <<>>

CacheInit ==
  /\ cache = <<>>
  /\ ttl \in 0..MaxTtl
  /\ cacheNow = 0
  /\ cacheOp = [op |-> "new", key |-> "-", value |-> "-", after |-> "-",
                afterKey |-> "-"]
  /\ cacheOps = 0
  /\ written = <<>>

\* time passes
CacheTick ==
  /\ cacheNow < MaxCacheTime
  /\ cacheNow' = cacheNow + 1
  /\ UNCHANGED <<cache, ttl, cacheOp, cacheOps, written, caOthers>>

\* cache.get(key)
Get ==
  \E k \in Keys :
    LET r == CacheGet(cache, k, cacheNow)
    IN /\ cacheOps < MaxCacheOps
       /\ cacheOps' = cacheOps + 1
       /\ cache' = r.cache
       /\ cacheOp' = [op |-> "get", key |-> k, value |-> r.value,
                    after |-> cacheOp.op, afterKey |-> cacheOp.key]
       /\ UNCHANGED <<ttl, cacheNow, written, caOthers>>

\* cache.set(key, data)
Set ==
  \E k \in Keys, v \in {"v1", "v2"} :
    /\ cacheOps < MaxCacheOps
    /\ cacheOps' = cacheOps + 1
    /\ cache' = CacheSet(cache, k, v, cacheNow, ttl)
    /\ cacheOp' = [op |-> "set", key |-> k, value |-> v,
                    after |-> cacheOp.op, afterKey |-> cacheOp.key]
    /\ written' = MapSet(written, k,
         [data |-> v, at |-> cacheNow, live |-> TRUE,
          n |-> IF k \in DOMAIN written THEN written[k].n + 1 ELSE 1])
    /\ UNCHANGED <<ttl, cacheNow, caOthers>>

\* cache.invalidate(key)
Invalidate ==
  \E k \in Keys :
    /\ cacheOps < MaxCacheOps
    /\ cacheOps' = cacheOps + 1
    /\ cache' = CacheInvalidate(cache, k)
    /\ cacheOp' = [op |-> "invalidate", key |-> k, value |-> "-",
                    after |-> cacheOp.op, afterKey |-> cacheOp.key]
    /\ written' = [j \in DOMAIN written |->
                     IF j = k THEN [written[j] EXCEPT !.live = FALSE]
                              ELSE written[j]]
    /\ UNCHANGED <<ttl, cacheNow, caOthers>>

\* cache.clear()
Clear ==
  /\ cacheOps < MaxCacheOps
  /\ cacheOps' = cacheOps + 1
  /\ cache' = CacheClear(cache)
  /\ cacheOp' = [op |-> "clear", key |-> "-", value |-> "-",
                    after |-> cacheOp.op, afterKey |-> cacheOp.key]
  /\ written' = [j \in DOMAIN written |-> [written[j] EXCEPT !.live = FALSE]]
  /\ UNCHANGED <<ttl, cacheNow, caOthers>>

CacheNext ==
  \/ CacheTick
  \/ Get
  \/ Set
  \/ Invalidate
  \/ Clear

(***************************************************************************)
(* continuousRetryDemo: one execute every 2 s on a CircuitBreaker(3, 5000) *)
(* around the simulatedAPI stub.  Times are in ms.                         *)
(***************************************************************************)

DemoThreshold == 3
DemoTimeout == 5000
DemoPeriod == 2000
maxAttempts == 8
\* the stub fails up to this invocation
DemoFailUpTo == 3
\* the stub succeeds from this invocation on
DemoRecoverFrom == 6

\* simulatedAPI: the value of shouldFail after callCount++, on the count-th
\* invocation
SimulatedAPI(count, flag) ==
  IF count <= DemoFailUpTo THEN TRUE
  ELSE IF count >= DemoRecoverFrom THEN FALSE
  ELSE flag

DemoInit ==
  /\ callCount = 0
  /\ shouldFail = TRUE
  /\ attempt = 1
  /\ demoPc = "call"
  /\ outcomes = <<>>

Outcome(met, out, after) == [met |-> met, out |-> out, after |-> after]

\* demoBreaker.execute(simulatedAPI) up to "await fn()": the stub runs to
\* its end inside the call
DemoExecute ==
  /\ demoPc = "call"
  /\ calls' = calls + 1
  /\ IF IsRejecting(breaker, now)
       THEN /\ settled' = "circuit_open"
            /\ outcomes' = Append(outcomes,
                              Outcome(breaker.state, "rejected", breaker.state))
            /\ demoPc' = "wait"
            /\ UNCHANGED <<breaker, inflight, invoked, callCount, shouldFail,
                           trials>>
       ELSE /\ breaker' = Admit(breaker)
            /\ inflight' = inflight + 1
            /\ invoked' = invoked + 1
            /\ callCount' = callCount + 1
            /\ shouldFail' = SimulatedAPI(callCount + 1, shouldFail)
            /\ demoPc' = "settle"
            /\ trials' = IF Admit(breaker).state = "HALF_OPEN" THEN 1 ELSE 0
            /\ UNCHANGED <<settled, outcomes>>
  /\ UNCHANGED <<now, run, maxRun, wasReset, guardUntil, fallbackFn,
                 superSettled, fallbackPending, attempt, demoOthers>>

\* execute resumed after the stub's promise settled
DemoSettle ==
  /\ demoPc = "settle"
  /\ inflight' = inflight - 1
  /\ trials' = 0
  /\ IF shouldFail
       THEN /\ breaker' = OnFailure(breaker, now)
            /\ run' = run + 1
            /\ maxRun' = IF run + 1 > maxRun THEN run + 1 ELSE maxRun
            /\ settled' = "fn_error"
            /\ guardUntil' = IF breaker.state = "HALF_OPEN"
                               THEN now + breaker.timeout ELSE guardUntil
            /\ outcomes' = Append(outcomes,
                              Outcome(breaker.state, "failed", breaker'.state))
       ELSE /\ breaker' = OnSuccess(breaker)
            /\ run' = 0
            /\ settled' = "fn_result"
            /\ outcomes' = Append(outcomes,
                              Outcome(breaker.state, "succeeded", breaker'.state))
            /\ UNCHANGED <<maxRun, guardUntil>>
  /\ demoPc' = "wait"
  /\ UNCHANGED <<now, calls, invoked, wasReset, fallbackFn, superSettled,
                 fallbackPending, callCount, shouldFail, attempt, demoOthers>>

\* the 2 s timer between attempts fires, on time or late; after the last
\* attempt the loop ends
DemoWait ==
  /\ demoPc = "wait"
  /\ IF attempt < maxAttempts
       THEN /\ \E late \in {0, MaxDrift} : now' = now + DemoPeriod + late
            /\ attempt' = attempt + 1
            /\ demoPc' = "call"
       ELSE /\ demoPc' = "done"
            /\ UNCHANGED <<now, attempt>>
  /\ UNCHANGED <<breaker, inflight, calls, invoked, run, maxRun, wasReset,
                 guardUntil, settled, fallbackFn, superSettled, fallbackPending, trials, callCount, shouldFail,
                 outcomes, demoOthers>>

DemoNext ==
  \/ DemoExecute
  \/ DemoSettle
  \/ DemoWait

(***************************************************************************)
(* The mock server (src/mock-server.js).  A request runs through the       *)
(* middleware chain and its handler without yielding, so each request is   *)
(* one step.  Times are in ms, prices in cents.                            *)
(***************************************************************************)

RATE_LIMIT == 10
RATE_WINDOW == 60000
AccessLife == 3600000
RefreshLife == 86400000
\* the clock step while the rate limit is exercised
SrvTickMs == RATE_WINDOW \div 2

\* undefined where a string is expected, and where a number is
Undefined == "undefined"
NoNumber == -1
\* !v in JavaScript, for the strings and for the numbers used here
FalsyString(v) == v \in {Undefined, ""}
FalsyNumber(v) == v \in {NoNumber, 0}

Stock(id, symbol, price, volume) ==
  [id |-> id, symbol |-> symbol, price |-> price, volume |-> volume]

InitialStocks ==
  <<Stock(1, "AAPL", 15025, 1000000),
    Stock(2, "GOOGL", 280050, 500000),
    Stock(3, "MSFT", 31075, 750000)>>

users ==
  {[id |-> 1, username |-> "testuser", password |-> "password123", role |-> "user"],
   [id |-> 2, username |-> "admin", password |-> "admin123", role |-> "admin"]}

\* what clients send as credentials: { username, password }
Credentials ==
  {[username |-> "testuser", password |-> "password123"],
   [username |-> "admin", password |-> "admin123"],
   [username |-> "admin", password |-> "wrong"],
   [username |-> Undefined, password |-> Undefined]}

WrongCredentials == [username |-> "admin", password |-> "wrong"]

\* the Authorization header: none (-1), or "Bearer <token>"; token 0 was
\* never issued
NoHeader == -1
Headers == {NoHeader} \cup (0..issued)

\* request bodies of the stock routes; Undefined stands for an absent field
Bodies ==
  {[symbol |-> "TSLA", price |-> 70000, volume |-> 100],
   [symbol |-> Undefined, price |-> 16000, volume |-> NoNumber]}

\* ids in /api/stocks/:id
StockIds == {1, 9}

AccessToken(user, t) ==
  [userId |-> user.id, username |-> user.username, role |-> user.role,
   type |-> Undefined, expiresAt |-> t + AccessLife]

RefreshToken(user, t) ==
  [userId |-> user.id, username |-> Undefined, role |-> Undefined,
   type |-> "refresh", expiresAt |-> t + RefreshLife]

\* one request too many is let through
RateLimitMiddleware_OffByOne(count) ==
  [requestCount |-> count + 1,
   status |-> IF count > RATE_LIMIT THEN 429 ELSE 0]

\* rateLimitMiddleware: status 0 stands for next()
RateLimitMiddleware(count) ==
  [requestCount |-> count + 1,
   status |-> IF count + 1 > RATE_LIMIT THEN 429 ELSE 0]

\* randomErrorMiddleware, mounted on the paths that do not start with /auth;
\* err is Math.random() < 0.1
RandomErrorMiddleware(isAuthPath, err) ==
  IF ~isAuthPath /\ err THEN 500 ELSE 0

NoUser == [id |-> NoNumber, username |-> Undefined, role |-> Undefined]

\* authMiddleware
AuthMiddleware(toks, h, t) ==
  IF h = NoHeader
    THEN [status |-> 401, tokens |-> toks, user |-> NoUser]
  ELSE IF h \notin DOMAIN toks
    THEN [status |-> 401, tokens |-> toks, user |-> NoUser]
  ELSE IF t > toks[h].expiresAt
    THEN [status |-> 401, tokens |-> MapDelete(toks, h), user |-> NoUser]
  ELSE [status |-> 0, tokens |-> toks,
        user |-> [id |-> toks[h].userId, username |-> toks[h].username,
                  role |-> toks[h].role]]

\* every authenticated user passes
AdminMiddleware_Any(user) == 0

\* adminMiddleware
AdminMiddleware(user) == IF user.role # "admin" THEN 403 ELSE 0

\* app.use(express.json()), mounted before every other middleware: 0
\* stands for next(); a body that is not JSON, one over the size limit and
\* one in an unsupported charset or encoding make it call next(err) with
\* status 400, 413 and 415, which the default error handler answers with
ExpressJson == {0, 400, 413, 415}

\* Math.random() < 0.1 of randomErrorMiddleware, which is not reached, and
\* draws nothing, when express.json() has refused the body
Drawn(json) == IF json = 0 THEN BOOLEAN ELSE {FALSE}

\* req.body as the handlers read it: a body that express.json() has parsed
Parsed(json) ==
  IF json = 0 THEN Bodies
  ELSE {[symbol |-> Undefined, price |-> NoNumber, volume |-> NoNumber]}

\* the chain in front of a handler: express.json(), rateLimitMiddleware,
\* randomErrorMiddleware, then the route's authMiddleware and
\* adminMiddleware; status 0 means the handler runs, and counted that
\* rateLimitMiddleware has run
Chain(json, count, toks, isAuthPath, err, needAuth, needAdmin, h, t) ==
  LET rl == RateLimitMiddleware(count)
      re == RandomErrorMiddleware(isAuthPath, err)
      au == AuthMiddleware(toks, h, t)
      thru == [status |-> 0, requestCount |-> rl.requestCount, tokens |-> toks,
               user |-> NoUser, counted |-> TRUE]
  IN IF json # 0
       THEN [thru EXCEPT !.status = json, !.requestCount = count,
                         !.counted = FALSE]
     ELSE IF rl.status # 0 THEN [thru EXCEPT !.status = rl.status]
     ELSE IF re # 0 THEN [thru EXCEPT !.status = re]
     ELSE IF ~needAuth THEN [thru EXCEPT !.status = 0]
     ELSE IF au.status # 0
       THEN [thru EXCEPT !.status = au.status, !.tokens = au.tokens]
     ELSE IF needAdmin /\ AdminMiddleware(au.user) # 0
       THEN [thru EXCEPT !.status = AdminMiddleware(au.user), !.user = au.user]
     ELSE [thru EXCEPT !.status = 0, !.user = au.user]

Answer(route, h, status, handler) ==
  [route |-> route, auth |-> h, status |-> status, handler |-> handler]

Admission(t, w) == [at |-> t, win |-> w]

\* what every request does to the counters
Counted(c) ==
  /\ reqsLeft > 0
  /\ reqsLeft' = reqsLeft - 1
  /\ requestCount' = c.requestCount
  /\ admitted' = IF ~c.counted \/ c.status = 429 THEN admitted
                 ELSE Append(admitted, Admission(srvNow, resets))
  /\ UNCHANGED <<srvNow, resets, srvOthers>>

SrvInit ==
  /\ requestCount = 0
  /\ stocks = InitialStocks
  /\ tokens = <<>>
  /\ issued = 0
  /\ srvNow = 0
  /\ resets = 0
  /\ response = Answer("none", NoHeader, 0, FALSE)
  /\ admitted = <<>>
  /\ reqsLeft \in {MaxRateReqs, MaxAuthReqs}

\* the clock advances, up to the next run of the setInterval callback
SrvTick ==
  /\ srvNow < MaxSrvTime
  /\ srvNow + SrvTickMs <= (resets + 1) * RATE_WINDOW
  /\ srvNow' = srvNow + SrvTickMs
  /\ UNCHANGED <<requestCount, stocks, tokens, issued, resets, response,
                 admitted, reqsLeft, srvOthers>>

\* the setInterval callback: requestCount = 0
IntervalFires ==
  /\ srvNow >= (resets + 1) * RATE_WINDOW
  /\ requestCount' = 0
  /\ resets' = resets + 1
  /\ UNCHANGED <<stocks, tokens, issued, srvNow, response, admitted, reqsLeft,
                 srvOthers>>

\* an hour without requests: the callback has run at every minute of it
IdleHour ==
  /\ srvNow < MaxIdle * AccessLife
  /\ srvNow' = srvNow + AccessLife
  /\ resets' = resets + AccessLife \div RATE_WINDOW
  /\ requestCount' = 0
  /\ UNCHANGED <<stocks, tokens, issued, response, admitted, reqsLeft,
                 srvOthers>>

\* POST /auth/login
Login(cred) ==
  \E json \in ExpressJson :
  LET c == Chain(json, requestCount, tokens, TRUE, FALSE, FALSE, FALSE, NoHeader, srvNow)
      found == {u \in users : u.username = cred.username
                              /\ u.password = cred.password}
      user == CHOOSE u \in found : TRUE
  IN /\ Counted(c)
     /\ UNCHANGED stocks
     /\ IF c.status # 0
          THEN /\ response' = Answer("login", NoHeader, c.status, FALSE)
               /\ UNCHANGED <<tokens, issued>>
        ELSE IF FalsyString(cred.username) \/ FalsyString(cred.password)
          THEN /\ response' = Answer("login", NoHeader, 400, TRUE)
               /\ UNCHANGED <<tokens, issued>>
        ELSE IF found = {}
          THEN /\ response' = Answer("login", NoHeader, 401, TRUE)
               /\ UNCHANGED <<tokens, issued>>
        ELSE /\ tokens' = MapSet(MapSet(tokens, issued + 1,
                                         AccessToken(user, srvNow)),
                                  issued + 2, RefreshToken(user, srvNow))
             /\ issued' = issued + 2
             /\ response' = Answer("login", NoHeader, 200, TRUE)

\* POST /auth/refresh with { refreshToken }
Refresh ==
  \E json \in ExpressJson, rt \in Headers :
    LET c == Chain(json, requestCount, tokens, TRUE, FALSE, FALSE, FALSE, NoHeader, srvNow)
        user == CHOOSE u \in users : u.id = tokens[rt].userId
    IN /\ Counted(c)
       /\ UNCHANGED stocks
       /\ IF c.status # 0
            THEN /\ response' = Answer("refresh", rt, c.status, FALSE)
                 /\ UNCHANGED <<tokens, issued>>
          ELSE IF rt = NoHeader
            THEN /\ response' = Answer("refresh", rt, 400, TRUE)
                 /\ UNCHANGED <<tokens, issued>>
          ELSE IF rt \notin DOMAIN tokens \/ tokens[rt].type # "refresh"
            THEN /\ response' = Answer("refresh", rt, 401, TRUE)
                 /\ UNCHANGED <<tokens, issued>>
          ELSE IF srvNow > tokens[rt].expiresAt
            THEN /\ response' = Answer("refresh", rt, 401, TRUE)
                 /\ tokens' = MapDelete(tokens, rt)
                 /\ UNCHANGED issued
          ELSE /\ tokens' = MapSet(tokens, issued + 1, AccessToken(user, srvNow))
               /\ issued' = issued + 1
               /\ response' = Answer("refresh", rt, 200, TRUE)

\* POST /auth/logout
Logout ==
  \E json \in ExpressJson, h \in Headers :
    LET c == Chain(json, requestCount, tokens, TRUE, FALSE, FALSE, FALSE, h, srvNow)
    IN /\ Counted(c)
       /\ UNCHANGED <<stocks, issued>>
       /\ IF c.status # 0
            THEN /\ response' = Answer("logout", h, c.status, FALSE)
                 /\ UNCHANGED tokens
            ELSE /\ tokens' = IF h # NoHeader /\ h \in DOMAIN tokens
                                THEN MapDelete(tokens, h) ELSE tokens
                 /\ response' = Answer("logout", h, 200, TRUE)

\* GET /api/stocks
GetStocks ==
  \E json \in ExpressJson, h \in Headers :
  \E err \in Drawn(json) :
    LET c == Chain(json, requestCount, tokens, FALSE, err, TRUE, FALSE, h, srvNow)
    IN /\ Counted(c)
       /\ UNCHANGED <<stocks, issued>>
       /\ tokens' = c.tokens
       /\ response' = Answer("get", h, IF c.status # 0 THEN c.status ELSE 200,
                             c.status = 0)

\* GET /auth/me
GetMe ==
  \E json \in ExpressJson, h \in Headers :
    LET c == Chain(json, requestCount, tokens, TRUE, FALSE, TRUE, FALSE, h, srvNow)
    IN /\ Counted(c)
       /\ UNCHANGED <<stocks, issued>>
       /\ tokens' = c.tokens
       /\ response' = Answer("me", h, IF c.status # 0 THEN c.status ELSE 200,
                             c.status = 0)

\* GET /api/stocks/:id
GetStockById ==
  \E json \in ExpressJson, h \in Headers :
  \E err \in Drawn(json), id \in StockIds :
    LET c == Chain(json, requestCount, tokens, FALSE, err, TRUE, FALSE, h, srvNow)
    IN /\ Counted(c)
       /\ UNCHANGED <<stocks, issued>>
       /\ tokens' = c.tokens
       /\ response' =
            IF c.status # 0 THEN Answer("getOne", h, c.status, FALSE)
            ELSE IF ~\E k \in DOMAIN stocks : stocks[k].id = id
              THEN Answer("getOne", h, 404, TRUE)
            ELSE Answer("getOne", h, 200, TRUE)

\* POST /api/stocks
PostStock ==
  \E json \in ExpressJson, h \in Headers :
  \E err \in Drawn(json), body \in Parsed(json) :
    LET c == Chain(json, requestCount, tokens, FALSE, err, TRUE, TRUE, h, srvNow)
    IN /\ Counted(c)
       /\ UNCHANGED issued
       /\ tokens' = c.tokens
       /\ IF c.status # 0
            THEN /\ response' = Answer("post", h, c.status, FALSE)
                 /\ UNCHANGED stocks
          ELSE IF \/ FalsyString(body.symbol)
                  \/ FalsyNumber(body.price)
                  \/ FalsyNumber(body.volume)
            THEN /\ response' = Answer("post", h, 400, TRUE)
                 /\ UNCHANGED stocks
          ELSE /\ stocks' = Append(stocks, Stock(Len(stocks) + 1, body.symbol,
                                                 body.price, body.volume))
               /\ response' = Answer("post", h, 201, TRUE)

\* stocks.findIndex((s) => s.id === id): 0 stands for -1
FindIndex(list, id) ==
  IF \E k \in DOMAIN list : list[k].id = id
    THEN CHOOSE k \in DOMAIN list :
           list[k].id = id /\ \A j \in 1..(k - 1) : list[j].id # id
    ELSE 0

\* PUT /api/stocks/:id
PutStock ==
  \E json \in ExpressJson, h \in Headers :
  \E err \in Drawn(json), body \in Parsed(json), id \in StockIds :
    LET c == Chain(json, requestCount, tokens, FALSE, err, TRUE, TRUE, h, srvNow)
        index == FindIndex(stocks, id)
    IN /\ Counted(c)
       /\ UNCHANGED issued
       /\ tokens' = c.tokens
       /\ IF c.status # 0
            THEN /\ response' = Answer("put", h, c.status, FALSE)
                 /\ UNCHANGED stocks
          ELSE IF index = 0
            THEN /\ response' = Answer("put", h, 404, TRUE)
                 /\ UNCHANGED stocks
          ELSE /\ stocks' = [stocks EXCEPT ![index] =
                               Stock(id, body.symbol, body.price, body.volume)]
               /\ response' = Answer("put", h, 200, TRUE)

\* Object.assign(stock, body)
Assign(stock, body) ==
  [stock EXCEPT
     !.symbol = IF body.symbol = Undefined THEN @ ELSE body.symbol,
     !.price = IF body.price = NoNumber THEN @ ELSE body.price,
     !.volume = IF body.volume = NoNumber THEN @ ELSE body.volume]

\* PATCH /api/stocks/:id
PatchStock ==
  \E json \in ExpressJson, h \in Headers :
  \E err \in Drawn(json), body \in Parsed(json), id \in StockIds :
    LET c == Chain(json, requestCount, tokens, FALSE, err, TRUE, TRUE, h, srvNow)
        index == FindIndex(stocks, id)
    IN /\ Counted(c)
       /\ UNCHANGED issued
       /\ tokens' = c.tokens
       /\ IF c.status # 0
            THEN /\ response' = Answer("patch", h, c.status, FALSE)
                 /\ UNCHANGED stocks
          ELSE IF index = 0
            THEN /\ response' = Answer("patch", h, 404, TRUE)
                 /\ UNCHANGED stocks
          ELSE /\ stocks' = [stocks EXCEPT ![index] = Assign(@, body)]
               /\ response' = Answer("patch", h, 200, TRUE)

\* DELETE /api/stocks/:id
DeleteStock ==
  \E json \in ExpressJson, h \in Headers :
  \E err \in Drawn(json), id \in StockIds :
    LET c == Chain(json, requestCount, tokens, FALSE, err, TRUE, TRUE, h, srvNow)
        index == FindIndex(stocks, id)
    IN /\ Counted(c)
       /\ UNCHANGED issued
       /\ tokens' = c.tokens
       /\ IF c.status # 0
            THEN /\ response' = Answer("delete", h, c.status, FALSE)
                 /\ UNCHANGED stocks
          ELSE IF index = 0
            THEN /\ response' = Answer("delete", h, 404, TRUE)
                 /\ UNCHANGED stocks
          ELSE /\ stocks' = RemoveAt(stocks, index)
               /\ response' = Answer("delete", h, 204, TRUE)

\* a request that matches no route: after the middleware mounted with
\* app.use, express answers 404
NoRoute ==
  \E json \in ExpressJson, isAuthPath \in BOOLEAN :
  \E err \in Drawn(json), h \in Headers :
    LET c == Chain(json, requestCount, tokens, isAuthPath, err, FALSE, FALSE,
                   h, srvNow)
    IN /\ Counted(c)
       /\ UNCHANGED <<stocks, tokens, issued>>
       /\ response' = Answer("other", h, IF c.status # 0 THEN c.status ELSE 404,
                             FALSE)

\* the rate limit under a stream of requests that reach a handler and
\* change nothing
RateNext ==
  \/ SrvTick
  \/ IntervalFires
  \/ Login(WrongCredentials)

\* the routes, with idle hours between requests
AuthNext ==
  \/ IdleHour
  \/ \E cred \in Credentials : Login(cred)
  \/ Refresh
  \/ Logout
  \/ GetMe
  \/ GetStocks
  \/ GetStockById
  \/ PostStock
  \/ PutStock
  \/ PatchStock
  \/ DeleteStock
  \/ NoRoute

(***************************************************************************)
(* CircuitBreaker of advanced-patterns.js                                  *)
(***************************************************************************)

\* constructor(threshold, timeout), called at time t
AdvNewBreaker(threshold, timeout, t) ==
  [threshold |-> threshold, timeout |-> timeout, failureCount |-> 0,
   state |-> "CLOSED", nextAttempt |-> t]

\* execute: the circuit is OPEN and the timeout has not expired
AdvIsRejecting(b, t) == b.state = "OPEN" /\ t < b.nextAttempt

\* execute: past the check of the state
AdvAdmit(b) == IF b.state = "OPEN" THEN [b EXCEPT !.state = "HALF_OPEN"] ELSE b

\* onSuccess
AdvOnSuccess(b) == [b EXCEPT !.failureCount = 0, !.state = "CLOSED"]

\* onFailure at time t
AdvOnFailure(b, t) ==
  IF b.failureCount + 1 >= b.threshold
    THEN [b EXCEPT !.failureCount = @ + 1, !.state = "OPEN",
                   !.nextAttempt = t + b.timeout]
    ELSE [b EXCEPT !.failureCount = @ + 1]

AdvInit ==
  /\ advNow = 0
  /\ \E th \in 1..MaxThreshold, to \in 1..MaxTimeout :
       adv = AdvNewBreaker(th, to, 0)
  /\ advInflight = 0
  /\ advCalls = 0
  /\ advInvoked = 0
  /\ advSettled = "none"

\* the breaker as the other components' specifications leave it
AdvIdle ==
  /\ AdvInit
  /\ adv.threshold = 1
  /\ adv.timeout = 1

\* time passes
AdvTick ==
  /\ advNow < MaxTime
  /\ advNow' = advNow + 1
  /\ UNCHANGED <<adv, advInflight, advCalls, advInvoked, advSettled, advOthers>>

\* execute(fn) up to "await fn()"
AdvExecute ==
  /\ advCalls < MaxCalls
  /\ advCalls' = advCalls + 1
  /\ IF AdvIsRejecting(adv, advNow)
       THEN /\ advSettled' = "circuit_open"
            /\ UNCHANGED <<adv, advInflight, advInvoked>>
       ELSE /\ advInflight < MaxInFlight
            /\ adv' = AdvAdmit(adv)
            /\ advInflight' = advInflight + 1
            /\ advInvoked' = advInvoked + 1
            /\ UNCHANGED advSettled
  /\ UNCHANGED <<advNow, advOthers>>

\* execute resumed after fn() resolved
AdvExecuteSuccess ==
  /\ advInflight > 0
  /\ advInflight' = advInflight - 1
  /\ adv' = AdvOnSuccess(adv)
  /\ advSettled' = "fn_result"
  /\ UNCHANGED <<advNow, advCalls, advInvoked, advOthers>>

\* execute resumed after fn() rejected
AdvExecuteFailure ==
  /\ advInflight > 0
  /\ advInflight' = advInflight - 1
  /\ adv' = AdvOnFailure(adv, advNow)
  /\ advSettled' = "fn_error"
  /\ UNCHANGED <<advNow, advCalls, advInvoked, advOthers>>

\* overlapping execute calls
AdvNext ==
  \/ AdvTick
  \/ AdvExecute
  \/ AdvExecuteSuccess
  \/ AdvExecuteFailure

\* overlapping execute calls, reset() at any point
CBNext ==
  \/ Tick
  \/ Execute
  \/ ExecuteSuccess
  \/ ExecuteFailure
  \/ Reset

\* non-overlapping execute calls
SeqNext ==
  \/ Tick
  \/ ExecuteAlone
  \/ ExecuteSuccess
  \/ ExecuteFailure
  \/ Reset

(***************************************************************************)
(* StockAPIClient (myOwnCodes/mock-server.js): APICache in front of a      *)
(* RateLimiter whose operations are calls of fetchWithRetry                *)
(***************************************************************************)

\* the symbols asked for
Symbols == {"IBM", "AAPL"}

\* response.data of a request that succeeds: a quote, an object with a
\* Note field, or the empty string of an empty body
NoteData == "note"
EmptyBody == ""
Datas == {"quote", NoteData, EmptyBody}

\* if (response.data.Note)
HasNote(d) == d = NoteData

\* if (cached): null and the empty string are falsy
Truthy(v) == v \notin {Null, EmptyBody}

\* what an async function that ends without return resolves with
UndefinedResult == "undefined"

\* the cacheTime given to the constructor, in ms
ClientCacheTimes == {8000, 300000}

\* this.rateLimiter = new RateLimiter(maxRequests, 60000), maxRequests = 5
ClientMaxRequests == 5
ClientTimeWindow == 60000

\* fetchWithRetry(symbol, maxRetries = 3, delay = 2000)
DefaultRetries == 3
RetryDelay == 2000

\* const waitTime = delay * 2
RetryWait == RetryDelay * 2

\* APICache.get(key) at time t: the map afterwards and the value returned
APICacheGet(c, k, t) ==
  IF k \notin DOMAIN c
    THEN [cache |-> c, value |-> Null]
    ELSE IF t > c[k].expiry
      THEN [cache |-> MapDelete(c, k), value |-> Null]
      ELSE [cache |-> c, value |-> c[k].data]

\* APICache.set(key, data) at time t
APICacheSet(c, k, v, t, life) ==
  MapSet(c, k, [data |-> v, expiry |-> t + life])

\* new StockAPIClient(apiKey, maxRequests, cacheTime)
NewClient(maxRequests, cacheTime) ==
  [cache |-> <<>>, ttl |-> cacheTime,
   rateLimiter |-> NewLimiter(maxRequests, ClientTimeWindow)]

\* no call of fetchWithRetry has been made
NoFetch ==
  [pc |-> "idle", via |-> "none", symbol |-> "-", maxRetries |-> 0,
   attempt |-> 0, wake |-> 0, requests |-> 0, successes |-> 0,
   result |-> "none", promise |-> 0, caught |-> "none", resumed |-> FALSE]

\* while (attempt < maxRetries): the next axios.get is issued, or the loop
\* ends and the function returns without a value
FetchLoop(f) ==
  IF f.attempt < f.maxRetries
    THEN [f EXCEPT !.pc = "request", !.requests = @ + 1]
    ELSE [f EXCEPT !.pc = "done", !.result = UndefinedResult]

\* fetchWithRetry(symbol, maxRetries) up to its first await
FetchStart(symbol, maxRetries, via, n) ==
  FetchLoop([NoFetch EXCEPT !.via = via, !.symbol = symbol,
                            !.maxRetries = maxRetries, !.promise = n])

\* the try block after the response arrived with data d: TRUE when it
\* throws
TryThrows(d) == HasNote(d)

\* the catch block: TRUE when it throws
CatchThrows(f) == f.attempt >= f.maxRetries

\* the entry of the n-th getStock call: its requestFn fetches symbol
ClientEntry(symbol, n) == [requestFn |-> symbol, promise |-> n]

\* processQueue of the client's limiter: the limiter afterwards and the
\* call of fetchWithRetry its requestFn makes, if one was invoked
ClientDispatch(l, f) ==
  LET pq == ProcessQueue(l)
  IN [limiter |-> pq.limiter,
      fetch |-> IF pq.invoked = <<>> THEN f
                ELSE FetchStart(pq.invoked[1].requestFn, DefaultRetries,
                                "limiter", pq.invoked[1].promise)]

ClientInit ==
  /\ \E ct \in ClientCacheTimes : client = NewClient(ClientMaxRequests, ct)
  /\ cliNow = 0
  /\ cliTimers = <<>>
  /\ fetch = NoFetch
  /\ gets = 0
  /\ lastGet = [symbol |-> "-", useCache |-> FALSE, returned |-> "-",
                enqueued |-> FALSE]
  /\ handed = <<>>

\* the client as the other components' specifications leave it
ClientIdle ==
  /\ ClientInit
  /\ client.ttl = 300000

\* time passes
CliTick ==
  /\ cliNow < MaxClientTime
  /\ cliNow' = cliNow + RetryWait
  /\ UNCHANGED <<client, cliTimers, fetch, gets, lastGet, handed, cliOthers>>

\* getStock(symbol, useCache)
GetStock(symbol, useCache) ==
  LET got == IF useCache THEN APICacheGet(client.cache, symbol, cliNow)
                         ELSE [cache |-> client.cache, value |-> Null]
      n == gets + 1
      pushed == [client.rateLimiter EXCEPT !.queue = Push(@, ClientEntry(symbol, n))]
      d == ClientDispatch(pushed, fetch)
  IN /\ gets < MaxGets
     /\ gets' = n
     /\ IF useCache /\ Truthy(got.value)
          THEN /\ client' = [client EXCEPT !.cache = got.cache]
               /\ lastGet' = [symbol |-> symbol, useCache |-> useCache,
                              returned |-> got.value, enqueued |-> FALSE]
               /\ UNCHANGED <<fetch, handed>>
          ELSE /\ client' = [client EXCEPT !.cache = got.cache,
                                           !.rateLimiter = d.limiter]
               /\ fetch' = d.fetch
               /\ lastGet' = [symbol |-> symbol, useCache |-> useCache,
                              returned |-> "promise", enqueued |-> TRUE]
               /\ handed' = handed @@ (n :> "pending")
     /\ UNCHANGED <<cliNow, cliTimers, cliOthers>>

\* axios.get resolved with response.data = d
FetchResponse(d) ==
  /\ fetch.pc = "request"
  /\ IF TryThrows(d)
       THEN IF CatchThrows(fetch)
              THEN /\ fetch' = [fetch EXCEPT !.pc = "done", !.result = "thrown",
                                             !.caught = "Rate limit exceeded"]
                   /\ UNCHANGED client
              ELSE /\ fetch' = [fetch EXCEPT !.pc = "wait",
                                             !.wake = cliNow + RetryWait,
                                             !.caught = "Rate limit exceeded"]
                   /\ UNCHANGED client
       ELSE LET f == FetchLoop([fetch EXCEPT !.attempt = @ + 1,
                                             !.successes = @ + 1])
            IN /\ f.requests <= MaxFetchRequests
               /\ fetch' = f
               /\ client' = [client EXCEPT !.cache =
                     APICacheSet(@, fetch.symbol, d, cliNow, client.ttl)]
  /\ UNCHANGED <<cliNow, cliTimers, gets, lastGet, handed, cliOthers>>

\* axios.get rejected: network error, timeout or error status
FetchError ==
  /\ fetch.pc = "request"
  /\ IF CatchThrows(fetch)
       THEN fetch' = [fetch EXCEPT !.pc = "done", !.result = "thrown",
                                   !.caught = "axios error"]
       ELSE fetch' = [fetch EXCEPT !.pc = "wait", !.wake = cliNow + RetryWait,
                                   !.caught = "axios error"]
  /\ UNCHANGED <<client, cliNow, cliTimers, gets, lastGet, handed, cliOthers>>

\* the timer of the catch block fires and the loop goes round
FetchWake ==
  /\ fetch.pc = "wait"
  /\ fetch.wake <= cliNow
  /\ fetch.requests < MaxFetchRequests
  /\ fetch' = FetchLoop(fetch)
  /\ UNCHANGED <<client, cliNow, cliTimers, gets, lastGet, handed, cliOthers>>

\* processQueue of the client's limiter resumed after "await requestFn()":
\* the call of fetchWithRetry it invoked has ended; the promise of the
\* entry is settled and waitAndRetry called
FetchEnded ==
  /\ fetch.pc = "done"
  /\ fetch.via = "limiter"
  /\ ~fetch.resumed
  /\ fetch' = [fetch EXCEPT !.resumed = TRUE]
  /\ handed' = [handed EXCEPT ![fetch.promise] =
                  IF fetch.result = "thrown" THEN "rejected" ELSE fetch.result]
  /\ cliTimers' = Append(cliTimers, cliNow + PaceTime(client.rateLimiter))
  /\ UNCHANGED <<client, cliNow, gets, lastGet, cliOthers>>

\* the callback of waitAndRetry's setTimeout, in the client's limiter
CliTimerFires ==
  \E k \in DOMAIN cliTimers :
    LET d == ClientDispatch(ClearProcessing(client.rateLimiter), fetch)
    IN /\ cliTimers[k] <= cliNow
       /\ cliTimers' = RemoveAt(cliTimers, k)
       /\ client' = [client EXCEPT !.rateLimiter = d.limiter]
       /\ fetch' = d.fetch
       /\ UNCHANGED <<cliNow, gets, lastGet, handed, cliOthers>>

\* fetchWithRetry(symbol, maxRetries) called on the client directly
FetchCall(symbol, maxRetries) ==
  /\ fetch.pc \in {"idle", "done"}
  /\ fetch' = FetchStart(symbol, maxRetries, "direct", 0)
  /\ UNCHANGED <<client, cliNow, cliTimers, gets, lastGet, handed, cliOthers>>

\* APICache.clear()
APICacheClear(c) == <<>>

\* client.cache.clear()
ClearCache ==
  /\ DOMAIN client.cache # {}
  /\ client' = [client EXCEPT !.cache = APICacheClear(@)]
  /\ UNCHANGED <<cliNow, cliTimers, fetch, gets, lastGet, handed, cliOthers>>

ClientNext ==
  \/ CliTick
  \/ \E symbol \in Symbols, useCache \in BOOLEAN : GetStock(symbol, useCache)
  \/ \E d \in Datas : FetchResponse(d)
  \/ FetchError
  \/ FetchWake
  \/ FetchEnded
  \/ CliTimerFires
  \/ ClearCache

FetchNext ==
  \/ CliTick
  \/ \E symbol \in Symbols, maxRetries \in 1..MaxRetries :
        FetchCall(symbol, maxRetries)
  \/ \E d \in Datas : FetchResponse(d)
  \/ FetchError
  \/ FetchWake
  \/ ClearCache

(***************************************************************************)
(* RequestDeduplicator (myOwnCodes/mock-server.js)                         *)
(***************************************************************************)

\* params: null, or an object given by its JSON text
NullParams == "null"
ParamsGiven == {NullParams, "{}", "{\"id\":1}"}

\* JSON.stringify(params || {})
StringifyParams(params) == IF params = NullParams THEN "{}" ELSE params

\* getKey(method, url, params): the three parts joined with colons
GetKey(method, url, params) == <<method, url, StringifyParams(params)>>

\* the key is left in the map
Forget_Keep(pending, key) == pending

\* this.pendingRequests.delete(key)
Forget(pending, key) == MapDelete(pending, key)

DedupInit ==
  /\ pendingRequests = <<>>
  /\ httpCalls = <<>>
  /\ callers = <<>>

\* execute(method, url, params)
DdExecute(method, url, params) ==
  LET key == GetKey(method, url, params)
      c == Len(httpCalls) + 1
  IN /\ Len(callers) < MaxExecutes
     /\ IF key \in DOMAIN pendingRequests
          THEN /\ callers' = Append(callers, [key |-> key,
                                              call |-> pendingRequests[key]])
               /\ UNCHANGED <<pendingRequests, httpCalls>>
          ELSE /\ httpCalls' = Append(httpCalls,
                     [key |-> key, method |-> method, url |-> url,
                      params |-> params, status |-> "pending"])
               /\ pendingRequests' = MapSet(pendingRequests, key, c)
               /\ callers' = Append(callers, [key |-> key, call |-> c])
     /\ UNCHANGED ddOthers

\* the then callback: the axios call resolved
DdResolved ==
  \E c \in DOMAIN httpCalls :
    /\ httpCalls[c].status = "pending"
    /\ httpCalls' = [httpCalls EXCEPT ![c].status = "data"]
    /\ pendingRequests' = Forget(pendingRequests, httpCalls[c].key)
    /\ UNCHANGED <<callers, ddOthers>>

\* the catch callback: the axios call rejected
DdRejected ==
  \E c \in DOMAIN httpCalls :
    /\ httpCalls[c].status = "pending"
    /\ httpCalls' = [httpCalls EXCEPT ![c].status = "error"]
    /\ pendingRequests' = Forget(pendingRequests, httpCalls[c].key)
    /\ UNCHANGED <<callers, ddOthers>>

DedupNext ==
  \/ \E method \in {"GET", "POST"}, url \in {"/posts/1"}, params \in ParamsGiven :
        DdExecute(method, url, params)
  \/ DdResolved
  \/ DdRejected

(***************************************************************************)
(* The two CircuitBreaker classes given the same non-overlapping calls,    *)
(* at the same times and with the same outcomes of the operation           *)
(***************************************************************************)

\* both constructors called with the same arguments at the same time
PairInit ==
  /\ now = 0
  /\ advNow = 0
  /\ \E th \in 1..MaxThreshold, to \in 0..MaxTimeout :
       /\ breaker = NewBreaker(th, to, 0)
       /\ adv = AdvNewBreaker(th, to, 0)
  /\ inflight = 0
  /\ calls = 0
  /\ invoked = 0
  /\ run = 0
  /\ maxRun = 0
  /\ wasReset = FALSE
  /\ guardUntil = 0
  /\ settled = "none"
  /\ fallbackFn = FALSE
  /\ superSettled = <<>>
  /\ fallbackPending = 0
  /\ trials = 0
  /\ advInflight = 0
  /\ advCalls = 0
  /\ advInvoked = 0
  /\ advSettled = "none"

\* time passes for both
PairTick ==
  /\ now < MaxTime
  /\ now' = now + 1
  /\ advNow' = advNow + 1
  /\ UNCHANGED <<breaker, inflight, calls, invoked, run, maxRun, wasReset,
                 guardUntil, settled, fallbackFn, superSettled, fallbackPending, trials, adv, advInflight, advCalls,
                 advInvoked, advSettled, pairOthers>>

\* execute(fn) on both while no call is pending, up to "await fn()"
PairExecute ==
  /\ inflight = 0
  /\ advInflight = 0
  /\ calls < MaxCalls
  /\ calls' = calls + 1
  /\ advCalls' = advCalls + 1
  /\ IF IsRejecting(breaker, now)
       THEN /\ settled' = "circuit_open"
            /\ breaker' = Reject(breaker)
            /\ UNCHANGED <<inflight, invoked>>
       ELSE /\ settled' = "pending"
            /\ breaker' = Admit(breaker)
            /\ inflight' = inflight + 1
            /\ invoked' = invoked + 1
  /\ IF AdvIsRejecting(adv, advNow)
       THEN /\ advSettled' = "circuit_open"
            /\ UNCHANGED <<adv, advInflight, advInvoked>>
       ELSE /\ advSettled' = "pending"
            /\ adv' = AdvAdmit(adv)
            /\ advInflight' = advInflight + 1
            /\ advInvoked' = advInvoked + 1
  /\ UNCHANGED <<now, advNow, run, maxRun, wasReset, guardUntil, fallbackFn, superSettled, fallbackPending, trials,
                 pairOthers>>

\* the operation resolved: execute resumed in each breaker that invoked it
PairSuccess ==
  /\ inflight + advInflight > 0
  /\ IF inflight > 0
       THEN /\ breaker' = OnSuccess(breaker)
            /\ settled' = "fn_result"
       ELSE UNCHANGED <<breaker, settled>>
  /\ IF advInflight > 0
       THEN /\ adv' = AdvOnSuccess(adv)
            /\ advSettled' = "fn_result"
       ELSE UNCHANGED <<adv, advSettled>>
  /\ inflight' = 0
  /\ advInflight' = 0
  /\ run' = 0
  /\ UNCHANGED <<now, advNow, calls, invoked, maxRun, wasReset, guardUntil,
                 fallbackFn, superSettled, fallbackPending, trials, advCalls, advInvoked, pairOthers>>

\* the operation rejected: execute resumed in each breaker that invoked it
PairFailure ==
  /\ inflight + advInflight > 0
  /\ IF inflight > 0
       THEN /\ breaker' = OnFailure(breaker, now)
            /\ settled' = "fn_error"
       ELSE UNCHANGED <<breaker, settled>>
  /\ IF advInflight > 0
       THEN /\ adv' = AdvOnFailure(adv, advNow)
            /\ advSettled' = "fn_error"
       ELSE UNCHANGED <<adv, advSettled>>
  /\ inflight' = 0
  /\ advInflight' = 0
  /\ run' = run + 1
  /\ maxRun' = IF run + 1 > maxRun THEN run + 1 ELSE maxRun
  /\ UNCHANGED <<now, advNow, calls, invoked, wasReset, guardUntil,
                 fallbackFn, superSettled, fallbackPending, trials, advCalls, advInvoked, pairOthers>>

PairNext ==
  \/ PairTick
  \/ PairExecute
  \/ PairSuccess
  \/ PairFailure

\* the breaker alone
Init ==
  /\ CBInit
  /\ fallbackFn = FALSE
  /\ RLInit
  /\ limiter.maxRequests = 5
  /\ CacheInit
  /\ ttl = 1
  /\ DemoInit
  /\ AdvIdle
  /\ SrvInit
  /\ DedupInit
  /\ ClientIdle
  /\ reqsLeft = MaxAuthReqs

\* the limiter alone
InitRL ==
  /\ RLInit
  /\ CBInit
  /\ breaker.threshold = 1
  /\ breaker.timeout = 1
  /\ fallbackFn = FALSE
  /\ CacheInit
  /\ ttl = 1
  /\ DemoInit
  /\ AdvIdle
  /\ SrvInit
  /\ DedupInit
  /\ ClientIdle
  /\ reqsLeft = MaxAuthReqs

\* the breaker with a fallback
InitFallback ==
  /\ CBInit
  /\ fallbackFn = TRUE
  /\ RLInit
  /\ limiter.maxRequests = 5
  /\ CacheInit
  /\ ttl = 1
  /\ DemoInit
  /\ AdvIdle
  /\ SrvInit
  /\ DedupInit
  /\ ClientIdle
  /\ reqsLeft = MaxAuthReqs

\* the cache alone
InitCache ==
  /\ CacheInit
  /\ CBInit
  /\ breaker.threshold = 1
  /\ breaker.timeout = 1
  /\ fallbackFn = FALSE
  /\ RLInit
  /\ limiter.maxRequests = 5
  /\ DemoInit
  /\ AdvIdle
  /\ SrvInit
  /\ DedupInit
  /\ ClientIdle
  /\ reqsLeft = MaxAuthReqs

\* continuousRetryDemo: demoBreaker = new CircuitBreaker(3, 5000)
InitDemo ==
  /\ now = 0
  /\ breaker = NewBreaker(DemoThreshold, DemoTimeout, 0)
  /\ inflight = 0
  /\ calls = 0
  /\ invoked = 0
  /\ run = 0
  /\ maxRun = 0
  /\ wasReset = FALSE
  /\ guardUntil = 0
  /\ settled = "none"
  /\ fallbackFn = FALSE
  /\ superSettled = <<>>
  /\ fallbackPending = 0
  /\ trials = 0
  /\ RLInit
  /\ limiter.maxRequests = 5
  /\ CacheInit
  /\ ttl = 1
  /\ DemoInit
  /\ AdvIdle
  /\ SrvInit
  /\ DedupInit
  /\ ClientIdle
  /\ reqsLeft = MaxAuthReqs

Spec == Init /\ [][CBNext]_vars

SpecSeq == Init /\ [][SeqNext]_vars

SpecRL == InitRL /\ [][RLNext]_vars

\* CircuitBreakerWithFallback: the calls and the catch blocks
FallbackNext ==
  \/ Tick
  \/ Execute
  \/ ExecuteSuccess
  \/ ExecuteFailure
  \/ Reset
  \/ FallbackResume
  \/ FallbackReturns

SpecFallback == InitFallback /\ [][FallbackNext]_vars

SpecDemo == InitDemo /\ [][DemoNext]_vars

\* the server under a stream of requests that exercises the rate limit
InitRate ==
  /\ CBInit
  /\ breaker.threshold = 1
  /\ breaker.timeout = 1
  /\ fallbackFn = FALSE
  /\ RLInit
  /\ limiter.maxRequests = 5
  /\ CacheInit
  /\ ttl = 1
  /\ DemoInit
  /\ AdvIdle
  /\ SrvInit
  /\ DedupInit
  /\ ClientIdle
  /\ reqsLeft = MaxRateReqs

\* the server under requests to all its routes, from its start or from
\* RATE_LIMIT - 1 logins with wrong credentials made right after it
InitAuth ==
  /\ CBInit
  /\ breaker.threshold = 1
  /\ breaker.timeout = 1
  /\ fallbackFn = FALSE
  /\ RLInit
  /\ limiter.maxRequests = 5
  /\ CacheInit
  /\ ttl = 1
  /\ DemoInit
  /\ AdvIdle
  /\ requestCount \in {0, RATE_LIMIT - 1}
  /\ stocks = InitialStocks
  /\ tokens = <<>>
  /\ issued = 0
  /\ srvNow = 0
  /\ resets = 0
  /\ response = IF requestCount = 0 THEN Answer("none", NoHeader, 0, FALSE)
                                     ELSE Answer("login", NoHeader, 401, TRUE)
  /\ admitted = [k \in 1..requestCount |-> Admission(0, 0)]
  /\ DedupInit
  /\ ClientIdle
  /\ reqsLeft = MaxAuthReqs

SpecRate == InitRate /\ [][RateNext]_vars

\* the breaker of advanced-patterns.js
InitAdv ==
  /\ CBInit
  /\ breaker.threshold = 1
  /\ breaker.timeout = 1
  /\ fallbackFn = FALSE
  /\ RLInit
  /\ limiter.maxRequests = 5
  /\ CacheInit
  /\ ttl = 1
  /\ DemoInit
  /\ SrvInit
  /\ DedupInit
  /\ ClientIdle
  /\ reqsLeft = MaxAuthReqs
  /\ AdvInit

SpecAdv == InitAdv /\ [][AdvNext]_vars

SpecAuth == InitAuth /\ [][AuthNext]_vars

\* the client under calls of getStock
InitClient ==
  /\ CBInit
  /\ breaker.threshold = 1
  /\ breaker.timeout = 1
  /\ fallbackFn = FALSE
  /\ RLInit
  /\ limiter.maxRequests = 5
  /\ CacheInit
  /\ ttl = 1
  /\ DemoInit
  /\ AdvIdle
  /\ SrvInit
  /\ DedupInit
  /\ reqsLeft = MaxAuthReqs
  /\ ClientInit

\* the two breakers side by side
InitPair ==
  /\ PairInit
  /\ RLInit
  /\ limiter.maxRequests = 5
  /\ CacheInit
  /\ ttl = 1
  /\ DemoInit
  /\ SrvInit
  /\ DedupInit
  /\ reqsLeft = MaxAuthReqs
  /\ ClientIdle

SpecPair == InitPair /\ [][PairNext]_vars

\* the deduplicator alone
InitDedup ==
  /\ CBInit
  /\ breaker.threshold = 1
  /\ breaker.timeout = 1
  /\ fallbackFn = FALSE
  /\ RLInit
  /\ limiter.maxRequests = 5
  /\ CacheInit
  /\ ttl = 1
  /\ DemoInit
  /\ AdvIdle
  /\ SrvInit
  /\ DedupInit
  /\ reqsLeft = MaxAuthReqs
  /\ ClientIdle

SpecDedup == InitDedup /\ [][DedupNext]_vars

SpecClient == InitClient /\ [][ClientNext]_vars

SpecFetch == InitClient /\ [][FetchNext]_vars

SpecCache == InitCache /\ [][CacheNext]_vars

\* the limiter with requests that complete, with any outcome, and timers
\* that fire
RLThrottledNext ==
  \/ TimerWaits
  \/ Enqueue
  \/ RequestSucceeds
  \/ RequestFails
  \/ TimerFires

SpecRLThrottled ==
  /\ InitRL
  /\ [][RLThrottledNext]_vars
  /\ WF_vars(TimerWaits)
  /\ WF_vars(TimerFires)
  /\ WF_vars(RequestSucceeds \/ RequestFails)

SpecRLFair ==
  /\ InitRL
  /\ [][RLLiveNext]_vars
  /\ WF_vars(TimerWaits)
  /\ WF_vars(TimerFires)
  /\ WF_vars(RequestCompletes)

(***************************************************************************)
(* Steps of execute, as seen from outside                                  *)
(***************************************************************************)
ExecuteCalled == calls' = calls + 1
FnInvoked == invoked' = invoked + 1 /\ inflight' = inflight + 1
FnNotInvoked == invoked' = invoked /\ inflight' = inflight
FnSucceeded == inflight' = inflight - 1 /\ settled' = "fn_result"
FnFailed == inflight' = inflight - 1 /\ run' = run + 1

(***************************************************************************)
(* C1: a fresh breaker fed non-overlapping failing calls is still CLOSED   *)
(* after each of the first threshold-1 failures, and after the             *)
(* threshold-th it is OPEN with nextAttempt = time of that failure +       *)
(* timeout.                                                                *)
(***************************************************************************)
C1_OnlyFailures == ~wasReset /\ breaker.successCount = 0

C1_Step ==
  (FnFailed /\ C1_OnlyFailures) =>
     /\ run' < breaker.threshold => breaker'.state = "CLOSED"
     /\ run' = breaker.threshold =>
          /\ breaker'.state = "OPEN"
          /\ breaker'.nextAttempt = now + breaker.timeout

C1_OpensAtThreshold == [][C1_Step]_vars

C1_Witness ==
  /\ C1_OnlyFailures
  /\ breaker.threshold >= 2
  /\ run = breaker.threshold
  /\ breaker.state = "OPEN"
  /\ now > 0

(***************************************************************************)
(* C2: an execute made while the state is OPEN and now < nextAttempt is    *)
(* rejected with the circuit-open error and its operation is not invoked.  *)
(***************************************************************************)
C2_Step ==
  (ExecuteCalled /\ breaker.state = "OPEN" /\ now < breaker.nextAttempt) =>
     /\ FnNotInvoked
     /\ settled' = "circuit_open"

C2_FailFast == [][C2_Step]_vars

C2_Witness ==
  /\ settled = "circuit_open"
  /\ calls > invoked
  /\ breaker.state = "OPEN"
  /\ now < breaker.nextAttempt

(***************************************************************************)
(* C3: with non-overlapping calls, an execute made while the state is OPEN *)
(* and now >= nextAttempt moves the state to HALF_OPEN and invokes the     *)
(* operation once; when that operation succeeds the state is CLOSED with   *)
(* failureCount = 0, and an execute made in CLOSED is passed through.      *)
(***************************************************************************)
C3_TrialStep ==
  (ExecuteCalled /\ breaker.state = "OPEN" /\ inflight = 0
     /\ now >= breaker.nextAttempt) =>
     /\ breaker'.state = "HALF_OPEN"
     /\ invoked' = invoked + 1
     /\ inflight' = 1

C3_SuccessStep ==
  (FnSucceeded /\ breaker.state = "HALF_OPEN") =>
     /\ breaker'.state = "CLOSED"
     /\ breaker'.failureCount = 0

C3_NextStep ==
  (ExecuteCalled /\ breaker.state = "CLOSED") => FnInvoked

\* while the state is HALF_OPEN the trial is the pending call
C3_TrialPending == breaker.state = "HALF_OPEN" => inflight = 1

C3_RecoveryOnSuccess ==
  /\ []C3_TrialPending
  /\ [][C3_TrialStep /\ C3_SuccessStep /\ C3_NextStep]_vars

C3_Witness ==
  /\ ~wasReset
  /\ maxRun >= breaker.threshold
  /\ run = 0
  /\ breaker.state = "CLOSED"
  /\ breaker.failureCount = 0
  /\ settled = "fn_result"
  /\ inflight = 1

(***************************************************************************)
(* C4 as stated: when the operation that execute invoked in HALF_OPEN      *)
(* fails, the state is OPEN with nextAttempt = time of the failure +       *)
(* timeout, whatever failureCount is, and until that time no execute is    *)
(* admitted.  It is taken for a breaker on which reset() has not been      *)
(* called, which asks less than the statement does.                        *)
(***************************************************************************)
\* the operation that fails in this step was invoked in HALF_OPEN
C4_TrialFailed == ~wasReset /\ FnFailed /\ trials' = trials - 1

C4_FailStep ==
  C4_TrialFailed =>
     /\ breaker'.state = "OPEN"
     /\ breaker'.nextAttempt = now + breaker.timeout

C4_GuardStep ==
  (ExecuteCalled /\ now < guardUntil) => (FnNotInvoked /\ settled' = "circuit_open")

C4_TrialFailureReopens == [][C4_FailStep /\ C4_GuardStep]_vars

(***************************************************************************)
(* C5: a success in CLOSED state sets failureCount to 0 whatever it was,   *)
(* and as long as every run of consecutive failures is shorter than        *)
(* threshold the state is CLOSED.                                          *)
(***************************************************************************)
C5_SuccessStep ==
  (FnSucceeded /\ breaker.state = "CLOSED") =>
     (breaker'.failureCount = 0 /\ breaker'.state = "CLOSED")

C5_ShortRuns == maxRun < breaker.threshold => breaker.state = "CLOSED"

C5_SuccessResetsCount == []C5_ShortRuns /\ [][C5_SuccessStep]_vars

C5_Witness ==
  /\ ~wasReset
  /\ breaker.threshold = 2
  /\ breaker.successCount = 1
  /\ invoked >= 3
  /\ inflight = 0
  /\ run = 1
  /\ maxRun = 1
  /\ breaker.state = "CLOSED"

(***************************************************************************)
(* C6: while the state is HALF_OPEN at most one operation invoked through  *)
(* the breaker is in flight.                                               *)
(***************************************************************************)
C6_SingleTrial == breaker.state = "HALF_OPEN" => inflight <= 1

(***************************************************************************)
(* What the trace of the limiter shows                                     *)
(***************************************************************************)
Starts(k) == Cardinality({j \in 1..k : trace[j].ev = "start"})
Ends(k) == Cardinality({j \in 1..k : trace[j].ev = "end"})
IsStart(k) == trace[k].ev = "start"
IsEnd(k) == trace[k].ev = "end"
IsEnq(k) == trace[k].ev = "enq"
Is429(k) == IsEnd(k) /\ trace[k].out = "429"
No429 == \A k \in DOMAIN trace : ~Is429(k)
\* the completions of the attempts of item i, in order
EndsOf(i) == {k \in DOMAIN trace : IsEnd(k) /\ trace[k].item = i}
InQueue(i) == Cardinality({k \in DOMAIN limiter.queue : limiter.queue[k] = Entry(i)})
InFlight(i) == IF Entry(i) \in running THEN 1 ELSE 0
Started == NumEvents("start")

(***************************************************************************)
(* C7: the limiter runs the enqueued operations one at a time: an          *)
(* operation is invoked only when every operation invoked before it has    *)
(* completed, whenever the enqueue calls are made.                         *)
(***************************************************************************)
C7_OneAtATime ==
  /\ Cardinality(running) <= 1
  /\ \A k \in DOMAIN trace : IsStart(k) => Starts(k - 1) = Ends(k - 1)

C7_Witness ==
  /\ Started >= 2
  \* an item is waiting for the timer
  /\ running = {}
  /\ timers # <<>>
  /\ limiter.queue # <<>>
  \* an enqueue call while an operation was pending
  /\ \E k \in DOMAIN trace : k > 1 /\ IsEnq(k) /\ IsStart(k - 1)
  \* an enqueue call while a timer was pending
  /\ \E k \in DOMAIN trace : k > 1 /\ IsEnq(k) /\ IsEnd(k - 1)

(***************************************************************************)
(* C8: when no operation fails with status 429, the operations are invoked *)
(* in the order of the enqueue calls, whether they succeed or fail.        *)
(***************************************************************************)
C8_Fifo ==
  No429 => \A k \in DOMAIN trace : IsStart(k) => trace[k].item = Starts(k)

C8_Witness ==
  /\ No429
  /\ Started = 3
  /\ \E k \in DOMAIN trace : IsEnd(k) /\ trace[k].out = "500"
  /\ \E k \in DOMAIN trace : IsEnd(k) /\ trace[k].out = "ok"
  \* two items were waiting in the queue
  /\ \E k \in DOMAIN trace : k > 1 /\ k < Len(trace) /\ IsEnq(k)
                              /\ IsEnq(k - 1) /\ ~IsStart(k + 1)

(***************************************************************************)
(* C9: an item whose operation fails with status 429 stays in the queue to *)
(* be invoked again once the cool-down is over, and its promise is pending *)
(* until an attempt of its own operation succeeds (the promise is resolved *)
(* with it) or fails with another error (the promise is rejected with it). *)
(***************************************************************************)
C9_ItemOk(i) ==
  LET ends == EndsOf(i)
      final == {k \in ends : trace[k].out # "429"}
  IN /\ promise[i].status = "pending" =>
          (final = {} /\ InQueue(i) + InFlight(i) = 1)
     /\ promise[i].status = "resolved" =>
          /\ promise[i].by = i
          /\ \E k \in final : final = {k} /\ trace[k].out = "ok"
                                /\ \A j \in ends : j <= k
     /\ promise[i].status = "rejected" =>
          /\ promise[i].by = i
          /\ \E k \in final : final = {k} /\ trace[k].out \in ErrorStatuses
                                /\ \A j \in ends : j <= k
     /\ promise[i].status \in {"resolved", "rejected"} =>
          InQueue(i) + InFlight(i) = 0
     /\ promise[i].status = "none" => ends = {}

\* the items that have had an attempt fail with status 429
C9_Promises ==
  \A i \in 1..MaxItems : (\E k \in EndsOf(i) : Is429(k)) => C9_ItemOk(i)

C9_CoolDownStep == (running' # running /\ running' # {}) => rlNow >= coolUntil

C9_RateLimitedRetried == []C9_Promises /\ [][C9_CoolDownStep]_vars

(***************************************************************************)
(* C10: an item whose attempt failed with status 429 is at the head of the *)
(* queue, and the next operation invoked is that item's, also when other   *)
(* items are enqueued during the cool-down.                                *)
(***************************************************************************)
C10_NextIsSame(k) ==
  \A m \in DOMAIN trace :
    (m > k /\ IsStart(m) /\ Starts(m - 1) = Starts(k)) =>
       trace[m].item = trace[k].item

C10_AtHead(k) ==
  Started = Starts(k) =>
     (limiter.queue # <<>> /\ Head(limiter.queue) = Entry(trace[k].item))

C10_KeepsPosition ==
  \A k \in DOMAIN trace : Is429(k) => (C10_NextIsSame(k) /\ C10_AtHead(k))

C10_Witness ==
  \E k \in DOMAIN trace :
    /\ Is429(k)
    /\ k + 2 <= Len(trace)
    /\ IsEnq(k + 1)
    /\ IsStart(k + 2)
    \* another item was already waiting when the attempt failed
    /\ \E j \in 1..(k - 1) : IsEnq(j) /\ trace[j].item # trace[k].item
                               /\ trace[j].item < trace[k + 1].item

(***************************************************************************)
(* C11: with timers that fire, requests that complete and finitely many    *)
(* failures with status 429, every promise returned by enqueue is          *)
(* eventually resolved or rejected, and the processing flag is always      *)
(* cleared again, with no item left in the queue.                          *)
(***************************************************************************)
C11_Settles(i) ==
  promise[i].status = "pending" ~> promise[i].status \in {"resolved", "rejected"}

C11_Idle == ~limiter.processing /\ limiter.queue = <<>>

C11_Liveness ==
  /\ \A i \in 1..MaxItems : C11_Settles(i)
  /\ limiter.processing ~> C11_Idle

(***************************************************************************)
(* Calls on the cache, as seen from outside                                *)
(***************************************************************************)
CacheCalled(op) == cacheOps' = cacheOps + 1 /\ cacheOp'.op = op
Live(k) == k \in DOMAIN written /\ written[k].live

(***************************************************************************)
(* C12: get(k) not later than ttl after the latest set(k, v) returns v,    *)
(* and set replaces the entry of k by v with expiry = now + ttl.           *)
(***************************************************************************)
C12_GetStep ==
  \A k \in Keys :
    (CacheCalled("get") /\ cacheOp'.key = k /\ Live(k)
       /\ cacheNow <= written[k].at + ttl) =>
      cacheOp'.value = written[k].data

C12_SetStep ==
  \A k \in Keys :
    (CacheCalled("set") /\ cacheOp'.key = k) =>
      /\ k \in DOMAIN cache'
      /\ cache'[k] = [data |-> cacheOp'.value, expiry |-> cacheNow + ttl]

C12_ReadYourWrite == [][C12_GetStep /\ C12_SetStep]_vars

C12_Witness ==
  /\ cacheOp.op = "get"
  /\ ttl >= 1
  /\ Live(cacheOp.key)
  /\ written[cacheOp.key].n >= 2
  /\ written[cacheOp.key].at > 0
  /\ cacheNow = written[cacheOp.key].at + ttl
  /\ cacheOp.value = written[cacheOp.key].data

(***************************************************************************)
(* C13: get(k) later than the expiry of the entry of k returns null and    *)
(* deletes the entry; a value set more than ttl ago is never returned; an  *)
(* entry leaves the map only by such a get, by invalidate or by clear.     *)
(***************************************************************************)
C13_GetStep ==
  \A k \in Keys :
    (CacheCalled("get") /\ cacheOp'.key = k) =>
      /\ (k \in DOMAIN cache /\ cacheNow > cache[k].expiry) =>
           (cacheOp'.value = Null /\ k \notin DOMAIN cache')
      /\ (Live(k) /\ cacheNow > written[k].at + ttl) => cacheOp'.value = Null

C13_RemovalStep ==
  \A k \in DOMAIN cache :
    k \notin DOMAIN cache' =>
      \/ CacheCalled("get") /\ cacheOp'.key = k /\ cacheNow > cache[k].expiry
      \/ CacheCalled("invalidate") /\ cacheOp'.key = k
      \/ CacheCalled("clear")

C13_LazyExpiry == [][C13_GetStep /\ C13_RemovalStep]_vars

C13_Witness ==
  /\ cacheOp.op = "get"
  /\ cacheOp.value = Null
  /\ Live(cacheOp.key)
  /\ cacheNow > written[cacheOp.key].at + ttl
  /\ cacheOp.key \notin DOMAIN cache
  /\ cache # <<>>

(***************************************************************************)
(* C14: invalidate(k) removes the entry of k and leaves every other entry  *)
(* as it is, the get(k) that follows returns null, and after clear() get   *)
(* returns null for every key.                                             *)
(***************************************************************************)
C14_InvalidateStep ==
  \A k \in Keys :
    (CacheCalled("invalidate") /\ cacheOp'.key = k) =>
      /\ DOMAIN cache' = DOMAIN cache \ {k}
      /\ \A j \in DOMAIN cache' : cache'[j] = cache[j]

C14_ClearStep == CacheCalled("clear") => cache' = <<>>

C14_GetStep ==
  CacheCalled("get") =>
    /\ (cacheOp.op = "invalidate" /\ cacheOp.key = cacheOp'.key) =>
          cacheOp'.value = Null
    /\ cacheOp.op = "clear" => cacheOp'.value = Null

C14_Invalidation == [][C14_InvalidateStep /\ C14_ClearStep /\ C14_GetStep]_vars

C14_Witness ==
  /\ cacheOp.op = "get"
  /\ cacheOp.after = "invalidate"
  /\ cacheOp.afterKey = cacheOp.key
  /\ cacheOp.value = Null
  /\ cacheOp.key \in DOMAIN written
  /\ cacheNow <= written[cacheOp.key].at + ttl
  /\ \E j \in DOMAIN cache : j # cacheOp.key /\ Live(j)

(***************************************************************************)
(* C15: CircuitBreakerWithFallback.execute gives the fallback's result     *)
(* only for a call rejected because the circuit is OPEN and now <          *)
(* nextAttempt, whose operation is not invoked; a call whose operation was *)
(* invoked and failed gets that failure.                                   *)
(***************************************************************************)
\* CircuitBreakerWithFallback.execute resumes on the outcome of a call
C15_Resumed == Len(superSettled') = Len(superSettled) - 1

\* the catch block calls fallbackFn
C15_FallbackCalled == fallbackPending' = fallbackPending + 1

\* a call whose operation was invoked and failed gets that failure, and the
\* fallback is not called
C15_FailureStep ==
  (C15_Resumed /\ Head(superSettled) = "fn_error") =>
     settled' = "fn_error" /\ ~C15_FallbackCalled

\* the fallback is called only for a call that was rejected
C15_FallbackStep ==
  (C15_Resumed /\ C15_FallbackCalled) => Head(superSettled) = "circuit_open"

C15_FallbackOnlyWhenRejected == [][C15_FailureStep /\ C15_FallbackStep]_vars

(***************************************************************************)
(* C16: the base CircuitBreaker passes an admitted call through: execute   *)
(* invokes the operation once when it admits the call, does not invoke it  *)
(* again when it completes, and settles with the operation's result or     *)
(* with the operation's own error.                                         *)
(***************************************************************************)
C16_AdmitStep ==
  (ExecuteCalled /\ ~(breaker.state = "OPEN" /\ now < breaker.nextAttempt)) =>
     FnInvoked

C16_ResultStep ==
  breaker'.successCount = breaker.successCount + 1 =>
     /\ invoked' = invoked
     /\ inflight' = inflight - 1
     /\ settled' = "fn_result"

C16_ErrorStep ==
  run' = run + 1 =>
     /\ invoked' = invoked
     /\ inflight' = inflight - 1
     /\ settled' = "fn_error"

C16_PassThrough == [][C16_AdmitStep /\ C16_ResultStep /\ C16_ErrorStep]_vars

C16_Witness ==
  /\ ~fallbackFn
  /\ settled = "fn_error"
  /\ breaker.state = "OPEN"
  /\ breaker.successCount >= 1
  /\ guardUntil = breaker.nextAttempt
  /\ guardUntil > 0

(***************************************************************************)
(* C17: the state starts as CLOSED, and every change of it made by execute *)
(* is CLOSED -> OPEN on a failure that brings failureCount to threshold or *)
(* more, OPEN -> HALF_OPEN on a call made when now >= nextAttempt,         *)
(* HALF_OPEN -> CLOSED on a success or HALF_OPEN -> OPEN on a failure; and *)
(* each of these events does change the state, so no state is terminal.    *)
(***************************************************************************)
C17_Move(from, to) == breaker.state = from /\ breaker'.state = to
C17_Success == breaker'.successCount = breaker.successCount + 1

C17_OnlyStep ==
  ((ExecuteCalled \/ inflight' # inflight) /\ breaker'.state # breaker.state) =>
     \/ C17_Move("CLOSED", "OPEN") /\ FnFailed
          /\ breaker'.failureCount >= breaker.threshold
     \/ C17_Move("OPEN", "HALF_OPEN") /\ ExecuteCalled
          /\ now >= breaker.nextAttempt
     \/ C17_Move("HALF_OPEN", "CLOSED") /\ C17_Success
     \/ C17_Move("HALF_OPEN", "OPEN") /\ FnFailed

C17_LeavesStep ==
  /\ (FnFailed /\ breaker.state = "CLOSED"
        /\ breaker.failureCount + 1 >= breaker.threshold) =>
       breaker'.state = "OPEN"
  /\ (ExecuteCalled /\ breaker.state = "OPEN" /\ now >= breaker.nextAttempt
        /\ FnInvoked) =>
       breaker'.state = "HALF_OPEN"
  /\ (C17_Success /\ breaker.state = "HALF_OPEN") => breaker'.state = "CLOSED"
  /\ (FnFailed /\ breaker.state = "HALF_OPEN") => breaker'.state = "OPEN"

C17_Transitions ==
  /\ breaker.state = "CLOSED"
  /\ [][C17_OnlyStep /\ C17_LeavesStep]_vars

\* the four transitions have been taken
C17_Witness ==
  /\ ~wasReset
  /\ guardUntil > 0
  /\ breaker.state = "CLOSED"
  /\ inflight = 2

(***************************************************************************)
(* C18 as stated: over execute and reset calls successCount never          *)
(* decreases.                                                              *)
(***************************************************************************)
C18_NeverDecreases ==
  [][breaker'.successCount >= breaker.successCount]_vars

(***************************************************************************)
(* C18 as amended: successCount counts the successes since construction or *)
(* the last reset(): it grows by exactly one per successful operation, no  *)
(* other step of execute changes it, reset() sets it to 0, and the state,  *)
(* failureCount and nextAttempt that execute computes do not depend on it. *)
(***************************************************************************)
C18_With(n) == [breaker EXCEPT !.successCount = n]
C18_Rest(b) == [b EXCEPT !.successCount = 0]
C18_ExecuteStep == ExecuteCalled \/ inflight' # inflight

C18_NoInfluence ==
  \A n \in 0..MaxCalls :
    /\ C18_Rest(OnSuccess(C18_With(n))) = C18_Rest(OnSuccess(breaker))
    /\ C18_Rest(OnFailure(C18_With(n), now)) = C18_Rest(OnFailure(breaker, now))
    /\ C18_Rest(Admit(C18_With(n))) = C18_Rest(Admit(breaker))
    /\ IsRejecting(C18_With(n), now) = IsRejecting(breaker, now)

C18_CountStep ==
  /\ FnSucceeded => breaker'.successCount = breaker.successCount + 1
  /\ ((C18_ExecuteStep \/ now' # now) /\ ~FnSucceeded) =>
       breaker'.successCount = breaker.successCount
  /\ (~wasReset /\ wasReset') => breaker'.successCount = 0
  /\ breaker'.successCount < breaker.successCount =>
       /\ wasReset' /\ ~C18_ExecuteStep
       /\ breaker'.successCount = 0

C18_SuccessCount ==
  /\ []C18_NoInfluence
  /\ [][C18_CountStep]_vars

\* reset() has zeroed the count of a breaker that had a success
C18_Witness ==
  /\ wasReset
  /\ settled = "fn_result"
  /\ breaker.successCount = 0

(***************************************************************************)
(* C19: reset() called in any state leaves the breaker CLOSED with         *)
(* failureCount = 0; an execute made at any time in that state invokes its *)
(* operation, and the circuit opens again only once threshold consecutive  *)
(* failures have been counted since the reset.                             *)
(***************************************************************************)
C19_ResetCalled == calls' = calls /\ inflight' = inflight /\ now' = now

C19_ResetStep ==
  C19_ResetCalled =>
    /\ breaker'.state = "CLOSED"
    /\ breaker'.failureCount = 0
    /\ \A t \in 0..MaxTime : ~IsRejecting(breaker', t)

C19_NextExecuteStep ==
  (ExecuteCalled /\ breaker.state = "CLOSED") =>
    FnInvoked /\ breaker'.state = "CLOSED"

C19_ReopenStep ==
  (wasReset /\ breaker.state = "CLOSED" /\ breaker'.state = "OPEN") =>
    FnFailed /\ run' >= breaker.threshold

C19_Reset ==
  [][C19_ResetStep /\ C19_NextExecuteStep /\ C19_ReopenStep]_vars

\* the only settled call failed and opened the circuit; reset() came before
\* nextAttempt and the third call was invoked all the same
C19_Witness ==
  /\ wasReset
  /\ breaker.threshold = 1
  /\ breaker.state = "CLOSED"
  /\ breaker.successCount = 0
  /\ now < breaker.nextAttempt
  /\ calls = 3 /\ invoked = 3 /\ inflight = 2

\* after a reset the circuit was opened again, by threshold failures
C19_WitnessReopened ==
  /\ wasReset
  /\ breaker.threshold = 2
  /\ breaker.state = "OPEN"
  /\ run = 2
  /\ guardUntil = 0

(***************************************************************************)
(* C20: in any interval of length timeWindow no more than maxRequests      *)
(* invocations are started, re-invocations after a rate-limit failure      *)
(* included.                                                               *)
(***************************************************************************)
C20_StartedWithin(from, len) ==
  {j \in DOMAIN startAt : from <= startAt[j] /\ startAt[j] < from + len}

C20_Budget ==
  \A i \in DOMAIN startAt :
    Cardinality(C20_StartedWithin(startAt[i], limiter.timeWindow))
      <= limiter.maxRequests

(***************************************************************************)
(* C21: in continuousRetryDemo attempts 1-3 fail and the 3rd opens the     *)
(* circuit, attempts 4-5 are rejected without invoking the stub, attempt 6 *)
(* is the HALF_OPEN trial, attempts 7 and 8 find the circuit CLOSED and    *)
(* succeed, and the loop ends with the circuit CLOSED.                     *)
(***************************************************************************)
C21_Expected(k, o) ==
  /\ k \in 1..3 => o.met = "CLOSED" /\ o.out = "failed"
  /\ k \in 1..2 => o.after = "CLOSED"
  /\ k = 3 => o.after = "OPEN"
  /\ k \in 4..5 => o.out = "rejected"
  /\ k = 6 => o.met = "HALF_OPEN"
  /\ k >= 7 => o.met = "CLOSED" /\ o.out = "succeeded" /\ o.after = "CLOSED"

C21_DemoRun ==
  /\ \A k \in DOMAIN outcomes : C21_Expected(k, outcomes[k])
  /\ demoPc = "done" => breaker.state = "CLOSED"

(***************************************************************************)
(* C22 as stated: no more than RATE_LIMIT requests are admitted in any     *)
(* interval of RATE_WINDOW ms.                                             *)
(***************************************************************************)
C22_AdmittedWithin(from, len) ==
  {j \in DOMAIN admitted :
     from <= admitted[j].at /\ admitted[j].at < from + len}

C22_SlidingWindow ==
  \A i \in DOMAIN admitted :
    Cardinality(C22_AdmittedWithin(admitted[i].at, RATE_WINDOW)) <= RATE_LIMIT

(***************************************************************************)
(* C22 as amended: between two consecutive resets of the counter (the      *)
(* setInterval callback, every RATE_WINDOW ms from the start of the        *)
(* server) at most RATE_LIMIT requests are admitted; every further request *)
(* before the next reset reaches no route handler and is answered 429,     *)
(* unless express.json() has refused its body with 400, 413 or 415.        *)
(***************************************************************************)
C22_AdmittedIn(w) == {j \in DOMAIN admitted : admitted[j].win = w}

C22_WindowBudget ==
  \A w \in 0..resets : Cardinality(C22_AdmittedIn(w)) <= RATE_LIMIT

C22_RequestMade == reqsLeft' = reqsLeft - 1

C22_FurtherStep ==
  (C22_RequestMade /\ Cardinality(C22_AdmittedIn(resets)) = RATE_LIMIT) =>
    /\ response'.status \in {429} \cup (ExpressJson \ {0})
    /\ response'.status # 429 => requestCount' = requestCount
    /\ ~response'.handler
    /\ admitted' = admitted
    /\ UNCHANGED <<stocks, tokens>>

C22_FixedWindow ==
  /\ []C22_WindowBudget
  /\ [][C22_FurtherStep]_vars

\* ten requests were admitted since the last reset and one more was refused
C22_Witness ==
  /\ resets = 1
  /\ Cardinality(C22_AdmittedIn(1)) = RATE_LIMIT
  /\ response.status = 429
  /\ ~response.handler

(***************************************************************************)
(* C23 as stated: a POST, PUT, PATCH or DELETE on /api/stocks changes the  *)
(* stocks list only if it carries an unexpired token of an admin; with a   *)
(* user's token the answer is 403, with a missing, unknown or expired      *)
(* token it is 401, and in both cases the list is unchanged.               *)
(***************************************************************************)
C23_WriteMade ==
  /\ reqsLeft' = reqsLeft - 1
  /\ response'.route \in {"post", "put", "patch", "delete"}

\* the token sent with the request is stored and has not expired
C23_Unexpired ==
  /\ response'.auth \in DOMAIN tokens
  /\ srvNow <= tokens[response'.auth].expiresAt

C23_Role == tokens[response'.auth].role

C23_OnlyAdminStep ==
  (C23_WriteMade /\ stocks' # stocks) => (C23_Unexpired /\ C23_Role = "admin")

C23_AsStatedStep ==
  /\ C23_OnlyAdminStep
  /\ (C23_WriteMade /\ C23_Unexpired /\ C23_Role = "user") =>
       (response'.status = 403 /\ stocks' = stocks)
  /\ (C23_WriteMade /\ ~C23_Unexpired) =>
       (response'.status = 401 /\ stocks' = stocks)

C23_AsStated == [][C23_AsStatedStep]_vars

(***************************************************************************)
(* C23 as amended: the same, except that express.json(), the rate limiter  *)
(* and the random error middleware run before the token is looked at: the *)
(* answer may be the 400, 413 or 415 of a refused body, else it is 429     *)
(* when the request is over the rate limit, else it may be 500, else it is *)
(* 403 or 401 as stated; in every one of these cases the list is unchanged. *)
(***************************************************************************)
C23_Refusal(status) ==
  /\ stocks' = stocks
  /\ ~response'.handler
  /\ \/ response'.status \in ExpressJson \ {0} /\ requestCount' = requestCount
     \/ /\ requestCount' = requestCount + 1
        /\ IF requestCount >= RATE_LIMIT
             THEN response'.status = 429
             ELSE response'.status \in {500, status}

C23_AmendedStep ==
  /\ C23_OnlyAdminStep
  /\ (C23_WriteMade /\ C23_Unexpired /\ C23_Role = "user") => C23_Refusal(403)
  /\ (C23_WriteMade /\ ~C23_Unexpired) => C23_Refusal(401)

C23_AccessControl == [][C23_AmendedStep]_vars

\* a user's unexpired token was refused on a write
C23_Witness ==
  /\ response.route \in {"post", "put", "patch", "delete"}
  /\ response.status = 403
  /\ response.auth \in DOMAIN tokens
  /\ tokens[response.auth].role = "user"
  /\ stocks = InitialStocks

\* a user's unexpired token was sent with a write over the rate limit
C23_WitnessLimited ==
  /\ response.route \in {"post", "put", "patch", "delete"}
  /\ response.status = 429
  /\ response.auth \in DOMAIN tokens
  /\ tokens[response.auth].role = "user"
  /\ requestCount = RATE_LIMIT + 1

\* a write with an admin's unexpired token and a body that is not JSON
C23_WitnessRefused ==
  /\ response.route \in {"post", "put", "patch"}
  /\ response.status = 400
  /\ ~response.handler
  /\ response.auth \in DOMAIN tokens
  /\ tokens[response.auth].role = "admin"

\* an admin's token changed the list
C23_WitnessAdmin ==
  /\ response.route = "delete"
  /\ response.status = 204
  /\ tokens[response.auth].role = "admin"
  /\ stocks # InitialStocks

\* an expired token was refused and removed
C23_WitnessExpired ==
  /\ response.route = "post"
  /\ response.status = 401
  /\ response.auth \in 1..issued
  /\ response.auth \notin DOMAIN tokens
  /\ srvNow = 2 * AccessLife
  /\ reqsLeft = MaxAuthReqs - 2

(***************************************************************************)
(* C24: when an attempt fails with an error that is not the rate-limit     *)
(* signal, the item's promise is rejected by that attempt, the item is     *)
(* neither queued nor invoked again, and the next invocation starts no     *)
(* sooner than timeWindow / maxRequests after the failure.                 *)
(***************************************************************************)
C24_FailedHard(k) == IsEnd(k) /\ trace[k].out \in ErrorStatuses \ {"429"}

C24_Discarded(k) ==
  LET i == trace[k].item
  IN /\ promise[i].status = "rejected"
     /\ promise[i].by = i
     /\ InQueue(i) = 0 /\ InFlight(i) = 0
     /\ \A m \in DOMAIN trace : (m > k /\ IsStart(m)) => trace[m].item # i

\* the invocation after the one that ended at event k waits the pacing delay
C24_Paced(k) ==
  Ends(k) + 1 \in DOMAIN startAt =>
    (startAt[Ends(k) + 1] - endAt[Ends(k)]) * limiter.maxRequests
      >= limiter.timeWindow

C24_Failures ==
  \A k \in DOMAIN trace : C24_FailedHard(k) => (C24_Discarded(k) /\ C24_Paced(k))

\* at the failure the queue is left as it is and the pacing timer is set
C24_FailureStep ==
  (Len(trace') = Len(trace) + 1 /\ C24_FailedHard(Len(trace))') =>
    /\ limiter' = limiter
    /\ limiter.processing
    /\ Len(timers') = Len(timers) + 1
    /\ SubSeq(timers', 1, Len(timers)) = timers
    /\ (timers'[Len(timers')] - rlNow) * limiter.maxRequests
         >= limiter.timeWindow
    /\ startAt' = startAt

C24_OtherErrors == []C24_Failures /\ [][C24_FailureStep]_vars

(***************************************************************************)
(* C25: an item all of whose attempts have failed with the rate-limit      *)
(* signal has its promise pending, no item enqueued after it has been      *)
(* invoked, and whatever the number of its failures it is invoked again    *)
(* (as long as the model lets an invocation start).                        *)
(***************************************************************************)
C25_StartsOf(i) == {k \in DOMAIN trace : IsStart(k) /\ trace[k].item = i}

C25_Throttled(i) ==
  /\ C25_StartsOf(i) # {}
  /\ \A k \in EndsOf(i) : Is429(k)

C25_Starved(i) ==
  C25_Throttled(i) =>
    /\ promise[i].status = "pending"
    /\ \A j \in (i + 1)..MaxItems : C25_StartsOf(j) = {}

\* between two attempts, with an invocation left to start
C25_Waiting(i) ==
  /\ C25_Throttled(i)
  /\ InFlight(i) = 0
  /\ NumEvents("start") < MaxStarts

C25_Retried(i) == C25_Waiting(i) ~> (InFlight(i) = 1)

C25_RetriedForever ==
  /\ [](\A i \in 1..MaxItems : C25_Starved(i))
  /\ \A i \in 1..MaxItems : C25_Retried(i)

\* an item is in its fourth attempt after three rate-limit failures while
\* the item behind it waits
C25_Witness ==
  /\ C25_Throttled(1)
  /\ Cardinality(EndsOf(1)) = 3
  /\ Cardinality(C25_StartsOf(1)) = 4
  /\ InQueue(2) = 1
  /\ promise[2].status = "pending"

(***************************************************************************)
(* C26: while the state is OPEN, the completion of a call, success or      *)
(* failure, changes neither the state nor nextAttempt.                     *)
(***************************************************************************)
C26_CompletionStep == inflight' = inflight - 1

C26_OpenWindowFixed ==
  [][(breaker.state = "OPEN" /\ C26_CompletionStep) =>
       /\ breaker'.state = "OPEN"
       /\ breaker'.nextAttempt = breaker.nextAttempt]_vars

(***************************************************************************)
(* C27: the breaker of advanced-patterns.js leaves OPEN only for HALF_OPEN *)
(* and only by an execute made at a time >= nextAttempt; no completion of  *)
(* a call moves it from OPEN to CLOSED, and every execute made in OPEN     *)
(* while now < nextAttempt is rejected without invoking its operation.     *)
(***************************************************************************)
C27_ExecuteCalled == advCalls' = advCalls + 1

C27_StaysOpenStep ==
  (adv.state = "OPEN" /\ adv'.state # "OPEN") =>
    /\ C27_ExecuteCalled
    /\ advNow >= adv.nextAttempt
    /\ adv'.state = "HALF_OPEN"

C27_RejectStep ==
  (C27_ExecuteCalled /\ adv.state = "OPEN" /\ advNow < adv.nextAttempt) =>
    /\ advInvoked' = advInvoked
    /\ advSettled' = "circuit_open"
    /\ adv' = adv

C27_OpenUntilTimeout == [][C27_StaysOpenStep /\ C27_RejectStep]_vars

(***************************************************************************)
(* C28: every invocation starts at least timeWindow / maxRequests after    *)
(* the completion of the invocation dispatched before it, retries of a     *)
(* rate-limited item included.                                             *)
(***************************************************************************)
C28_Paced ==
  \A n \in DOMAIN startAt :
    n >= 2 =>
      /\ n - 1 \in DOMAIN endAt
      /\ (startAt[n] - endAt[n - 1]) * limiter.maxRequests >= limiter.timeWindow

(***************************************************************************)
(* C29: whenever the state is CLOSED, failureCount < threshold, with       *)
(* overlapping calls and reset() at any point.                             *)
(***************************************************************************)
C29_ClosedBelowThreshold ==
  breaker.state = "CLOSED" => breaker.failureCount < breaker.threshold

\* one failure short of opening, after a reset and with calls pending
C29_Witness ==
  /\ breaker.state = "CLOSED"
  /\ breaker.threshold = 3
  /\ breaker.failureCount = 2
  /\ wasReset
  /\ inflight = 2

(***************************************************************************)
(* C30: an execute rejected because the state is OPEN and now <            *)
(* nextAttempt leaves state, failureCount, successCount and nextAttempt    *)
(* as they were.                                                           *)
(***************************************************************************)
C30_RejectedStep ==
  (ExecuteCalled /\ breaker.state = "OPEN" /\ now < breaker.nextAttempt) =>
    /\ breaker'.state = breaker.state
    /\ breaker'.failureCount = breaker.failureCount
    /\ breaker'.successCount = breaker.successCount
    /\ breaker'.nextAttempt = breaker.nextAttempt

C30_RejectionNotCounted == [][C30_RejectedStep]_vars

\* two calls in a row were rejected and the counters are those of the
\* opening
C30_Witness ==
  /\ settled = "circuit_open"
  /\ calls >= invoked + 2
  /\ breaker.state = "OPEN"
  /\ breaker.failureCount = breaker.threshold
  /\ inflight = 0
  /\ ~wasReset

(***************************************************************************)
(* C31: each promise returned by enqueue is settled at most once, and only *)
(* with the result or the non-rate-limit error of its own operation; an    *)
(* item is in the queue or in flight exactly while its promise is pending. *)
(***************************************************************************)
\* the calls of resolve or reject of item i: the completions of its
\* attempts that are not rate-limit failures
C31_Settlements(i) == {k \in EndsOf(i) : ~IsRateLimit(trace[k].out)}

C31_Held(i) == InQueue(i) + InFlight(i)

C31_OnceAndHeld ==
  \A i \in 1..MaxItems :
    /\ Cardinality(C31_Settlements(i)) <= 1
    /\ promise[i].status = "pending" <=> C31_Held(i) = 1
    /\ promise[i].status # "pending" => C31_Held(i) = 0

\* a promise changes only from pending, in the step that completes an
\* attempt of its own operation, and to that attempt's outcome
C31_SettleStep ==
  \A i \in 1..MaxItems :
    (promise'[i] # promise[i] /\ promise[i].status # "none") =>
      /\ promise[i].status = "pending"
      /\ Entry(i) \in running
      /\ \E out \in {"ok", "500", "none"} :
           /\ trace' = Append(trace, Event("end", i, out))
           /\ promise'[i] = [status |-> IF out = "ok" THEN "resolved"
                                                       ELSE "rejected",
                             by |-> i]

C31_OwnOutcomeOnce == []C31_OnceAndHeld /\ [][C31_SettleStep]_vars

(***************************************************************************)
(* C32: the promises settle in enqueue order, also when items are retried  *)
(* after rate-limit failures: no item enqueued after item X has its        *)
(* operation invoked before the promise of X is settled.                   *)
(***************************************************************************)
\* the promise of item i was settled before the k-th event
C32_SettledBefore(i, k) ==
  \E m \in 1..(k - 1) :
    IsEnd(m) /\ trace[m].item = i /\ ~IsRateLimit(trace[m].out)

C32_InEnqueueOrder ==
  \A k \in DOMAIN trace :
    IsStart(k) => \A i \in 1..(trace[k].item - 1) : C32_SettledBefore(i, k)

\* the second item was enqueued before the first attempt of the first
\* failed with status 429, and was invoked after the retry of the first
C32_Witness ==
  \E k \in DOMAIN trace :
    /\ Is429(k) /\ trace[k].item = 1
    /\ \E j \in 1..(k - 1) : IsEnq(j) /\ trace[j].item = 2
    /\ \E m \in DOMAIN trace : m > k /\ IsStart(m) /\ trace[m].item = 2
    /\ promise[1].status \in {"resolved", "rejected"}
    /\ Cardinality(EndsOf(1)) >= 2

(***************************************************************************)
(* C33: for every configuration the cool-down waited after a rate-limit    *)
(* failure before the next dispatch is strictly longer than the normal     *)
(* pacing interval timeWindow / maxRequests.                               *)
(***************************************************************************)
\* an attempt fails with status 429 in this step
C33_RateLimitedStep ==
  /\ Len(trace') = Len(trace) + 1
  /\ trace'[Len(trace')].ev = "end"
  /\ IsRateLimit(trace'[Len(trace')].out)

\* the delay of the timer set in this step
C33_Waited == timers'[Len(timers')] - rlNow

C33_LongerStep ==
  C33_RateLimitedStep =>
    /\ Len(timers') = Len(timers) + 1
    /\ C33_Waited * limiter.maxRequests > limiter.timeWindow

C33_CoolDownLonger == [][C33_LongerStep]_vars

(***************************************************************************)
(* C34: getStock(symbol) with useCache = true while the cache holds an     *)
(* unexpired entry for symbol returns the cached value, adds no item to    *)
(* the queue of the limiter and makes no upstream request; an item is      *)
(* enqueued only on a miss, an expired entry or useCache = false.          *)
(***************************************************************************)
\* the cache holds an entry for symbol s that has not expired
C34_HoldsUnexpired(s) ==
  s \in DOMAIN client.cache /\ ~(cliNow > client.cache[s].expiry)

C34_GetStockCalled == gets' = gets + 1

\* the call put an item in the queue or had it invoked at once
C34_Enqueued ==
  \/ Len(client'.rateLimiter.queue) > Len(client.rateLimiter.queue)
  \/ fetch'.requests # fetch.requests
  \/ fetch'.promise # fetch.promise

C34_HitStep ==
  (C34_GetStockCalled /\ lastGet'.useCache
     /\ C34_HoldsUnexpired(lastGet'.symbol)) =>
       /\ lastGet'.returned = client.cache[lastGet'.symbol].data
       /\ ~C34_Enqueued

C34_EnqueueStep ==
  (C34_GetStockCalled /\ C34_Enqueued) =>
     (~lastGet'.useCache \/ ~C34_HoldsUnexpired(lastGet'.symbol))

C34_CacheInFront == [][C34_HitStep /\ C34_EnqueueStep]_vars

(***************************************************************************)
(* C35: fetchWithRetry(symbol, maxRetries) issues at most maxRetries       *)
(* upstream requests, returns the response data after the first successful *)
(* request without issuing further requests, and throws once maxRetries    *)
(* requests have failed.                                                   *)
(***************************************************************************)
\* requests of the call that have failed so far
C35_Failed ==
  fetch.requests - fetch.successes - (IF fetch.pc = "request" THEN 1 ELSE 0)

C35_Terminates ==
  fetch.pc # "idle" =>
    /\ fetch.requests <= fetch.maxRetries
    /\ fetch.successes >= 1 => (fetch.pc = "done" /\ fetch.result \in Datas)
    /\ (fetch.successes = 0 /\ C35_Failed >= fetch.maxRetries) =>
          (fetch.pc = "done" /\ fetch.result = "thrown")

(***************************************************************************)
(* C36: while a request with a key is in flight, every further execute     *)
(* with the same key returns the pending promise of that request and       *)
(* starts no new HTTP call, so those callers get the one call's outcome;   *)
(* the key is removed when the call settles, with success or failure, so   *)
(* pendingRequests holds exactly the keys of the calls in flight.          *)
(***************************************************************************)
\* the HTTP calls in flight with key k
C36_InFlight(k) ==
  {c \in DOMAIN httpCalls : httpCalls[c].key = k /\ httpCalls[c].status = "pending"}

C36_KeysInFlight == {httpCalls[c].key : c \in {d \in DOMAIN httpCalls :
                                                httpCalls[d].status = "pending"}}

C36_ExactlyInFlight ==
  /\ DOMAIN pendingRequests = C36_KeysInFlight
  /\ \A k \in DOMAIN pendingRequests : C36_InFlight(k) = {pendingRequests[k]}

\* the callers of one key between two settlements share one call
C36_ExecuteStep ==
  Len(callers') = Len(callers) + 1 =>
    LET k == callers'[Len(callers')].key
    IN IF C36_InFlight(k) # {}
         THEN /\ httpCalls' = httpCalls
              /\ {callers'[Len(callers')].call} = C36_InFlight(k)
         ELSE /\ Len(httpCalls') = Len(httpCalls) + 1
              /\ callers'[Len(callers')].call = Len(httpCalls')
              /\ httpCalls'[Len(httpCalls')].key = k

C36_Deduplicated == []C36_ExactlyInFlight /\ [][C36_ExecuteStep]_vars

\* three callers shared one call, which failed, and a later execute with
\* the same key started a new call
C36_Witness ==
  /\ Len(callers) = 4
  /\ callers[1].call = 1 /\ callers[2].call = 1 /\ callers[3].call = 1
  /\ httpCalls[1].status = "error"
  /\ callers[4].key = callers[1].key
  /\ callers[4].call = 2
  /\ Len(httpCalls) = 2
  /\ httpCalls[2].status = "pending"

(***************************************************************************)
(* C37: for every sequence of non-overlapping execute calls with the same  *)
(* threshold >= 1, timeout, call times and operation outcomes, the two     *)
(* CircuitBreaker classes admit or reject exactly the same calls and have  *)
(* the same state and failureCount after every call.                       *)
(***************************************************************************)
C37_SameDecisions ==
  /\ calls = advCalls
  /\ invoked = advInvoked
  /\ inflight = advInflight
  /\ settled = advSettled

C37_Equivalent ==
  /\ C37_SameDecisions
  /\ breaker.state = adv.state
  /\ breaker.failureCount = adv.failureCount

\* the circuit opened, rejected a call, failed a trial and closed on the
\* next trial
C37_Witness ==
  /\ breaker.threshold >= 2
  /\ breaker.state = "CLOSED"
  /\ adv.state = "CLOSED"
  /\ settled = "fn_result"
  /\ maxRun > breaker.threshold
  /\ calls > invoked
  /\ inflight = 0

(***************************************************************************)
(* C38: authMiddleware admits a request only if its bearer token is an     *)
(* access token issued by /auth/login or /auth/refresh that has not        *)
(* expired and has not been removed by /auth/logout; a refresh token       *)
(* presented as a bearer token is rejected with 401.                       *)
(***************************************************************************)
\* a request to GET /auth/me, GET /api/stocks or GET /api/stocks/:id, the
\* routes behind authMiddleware alone
C38_RequestMade ==
  reqsLeft' = reqsLeft - 1 /\ response'.route \in {"me", "get", "getOne"}

\* the token of the Authorization header is a stored, unexpired access token
C38_ValidAccess(h) ==
  /\ h \in DOMAIN tokens
  /\ tokens[h].type # "refresh"
  /\ ~(srvNow > tokens[h].expiresAt)

C38_AdmitStep ==
  C38_RequestMade =>
    /\ response'.handler => C38_ValidAccess(response'.auth)
    /\ (response'.auth \in DOMAIN tokens
          /\ tokens[response'.auth].type = "refresh")
        => response'.status \in {401, 429, 500}

C38_OnlyAccessTokens == [][C38_AdmitStep]_vars

====
